---- MODULE Spec2Model ----
(***************************************************************************)
(* Credential profile store of openfang-runtime                            *)
(* (crates/openfang-runtime/src/auth_profiles_store.rs).                   *)
(*                                                                         *)
(* Strings are sequences of one-character strings, so that trim(),         *)
(* to_lowercase() and format!("{provider}:{profile_name}") are computed    *)
(* character by character.  A HashMap is a function whose DOMAIN is the    *)
(* key set, a Vec is a sequence, Option<T> is a sequence of length 0 or 1. *)
(***************************************************************************)
EXTENDS Integers, Sequences, FiniteSets, TLC

VARIABLES
    file,   \* ~/.openfang/auth-profiles.json: missing, unparsable, or a document
    env,    \* process environment: variable name -> value
    last,   \* the last call: operation, arguments as passed, return value
    pre,    \* the file as it was when the last call started
    procs,  \* independent processes, each part-way through one store call
    config,      \* KernelConfig the API server was started with
    start_env,   \* the environment as it was when ApiAuthState was built
    auth_state,  \* ApiAuthState built from it
    exchange,    \* the last request the gate was given, and its answer
    wizard,      \* WizardState of the setup wizard
    dotenv,      \* ~/.openfang/.env as crate::dotenv keeps it: key -> value
    event        \* the last key event the wizard handled, and what it did

vars == <<file, env, last, pre, procs, config, start_env, auth_state, exchange,
          wizard, dotenv, event>>

\* the setup wizard is not part of the run
WizardNotStarted == wizard = "none" /\ dotenv = "none" /\ event = "none"

wizardVars == <<wizard, dotenv, event>>

\* the API server is not part of the run
ApiNotStarted ==
    config = "none" /\ start_env = "none" /\ auth_state = "none" /\ exchange = "none"

\* what the calls of the single caller leave alone
outsideCaller == <<procs, config, start_env, auth_state, exchange, wizardVars>>

\* what the steps of the independent processes leave alone
outsideProcs == <<env, last, pre, config, start_env, auth_state, exchange, wizardVars>>

\* what the API server leaves alone
outsideApi == <<file, last, pre, procs, wizardVars>>

\* what the setup wizard leaves alone
outsideWizard == <<file, last, pre, procs, start_env, auth_state, exchange>>

---------------------------------------------------------------------------
(* Bounds of the model *)

MaxProfiles == 3      \* profiles kept in the store at once
MaxTime == 2          \* now_ms() reads a time in 0..MaxTime
MaxInput == 1         \* characters typed into an input of the wizard
MaxErase == 1         \* characters erased from the default model name

---------------------------------------------------------------------------
(* Strings *)

IsWhitespace(c) == c = " "

LowerChar(c) ==
    CASE c = "O" -> "o"
      [] c = "G" -> "g"
      [] c = "D" -> "d"
      [] c = "B" -> "b"
      [] c = "K" -> "k"
      [] c = "L" -> "l"
      [] c = "T" -> "t"
      [] OTHER -> c

RECURSIVE TrimStart(_)
TrimStart(s) ==
    IF s = <<>> THEN s
    ELSE IF IsWhitespace(Head(s)) THEN TrimStart(Tail(s)) ELSE s

RECURSIVE TrimEnd(_)
TrimEnd(s) ==
    IF s = <<>> THEN s
    ELSE IF IsWhitespace(s[Len(s)]) THEN TrimEnd(SubSeq(s, 1, Len(s) - 1)) ELSE s

Trim(s) == TrimEnd(TrimStart(s))

ToLowercase(s) == [i \in 1..Len(s) |-> LowerChar(s[i])]

\* format!("{provider}:{profile_name}")
FormatProfileId(provider, profile_name) == provider \o <<":">> \o profile_name

---------------------------------------------------------------------------
(* Maps and options *)

EmptyMap == [k \in {} |-> {}]

MapInsert(m, k, v) == [x \in (DOMAIN m) \cup {k} |-> IF x = k THEN v ELSE m[x]]

MapRemove(m, k) == [x \in (DOMAIN m) \ {k} |-> m[x]]

None == <<>>
Some(x) == <<x>>

---------------------------------------------------------------------------
(* The document *)

STORE_VERSION == 1

DefaultPriority == 100

ApiKeyKind == <<"a", "p", "i", "_", "k", "e", "y">>

\* StoredAuthProfile
StoredAuthProfile(provider, kind, env_var, priority) ==
    [provider |-> provider, kind |-> kind, env_var |-> env_var, priority |-> priority]

\* ProfileUsageStats; resolution reads cooldown_until_ms only
ProfileUsageStats(cooldown_until_ms) ==
    [last_used_at_ms |-> None, last_failure_at_ms |-> None, error_count |-> 0,
     cooldown_until_ms |-> cooldown_until_ms]

\* AuthProfileStore::default()
\* the document a derived Default would give: version 0
DerivedDefaultStore ==
    [version |-> 0, profiles |-> EmptyMap, order |-> EmptyMap,
     last_good |-> EmptyMap, usage_stats |-> EmptyMap]

DefaultStore ==
    [version |-> STORE_VERSION, profiles |-> EmptyMap, order |-> EmptyMap,
     last_good |-> EmptyMap, usage_stats |-> EmptyMap]

MissingFile == [kind |-> "missing", doc |-> DefaultStore]
CorruptFile == [kind |-> "corrupt", doc |-> DefaultStore]
DocFile(store) == [kind |-> "doc", doc |-> store]

\* load_store: a missing, unreadable or unparsable file is the default store
load_store(f) == IF f.kind = "doc" THEN f.doc ELSE DefaultStore

SaveOutcomes == {"ok", "mkdir_err", "open_err", "write_err"}

\* the outcomes to draw for a call: none when it returns before save_store
IoChoices(saves) == IF saves THEN SaveOutcomes ELSE {"unused"}

SaveWrites(io) == io \in {"ok", "write_err"}

\* save_store: create_dir_all, then fs::write (create/truncate, then write_all).
\* A failed create_dir_all or a failed open leave the file as it is; a write
\* that fails after the truncation leaves a prefix of the JSON text, which
\* does not parse.
save_store(f, store, io) ==
    CASE io = "ok" -> [file |-> DocFile(store), result |-> "Ok"]
      [] io = "mkdir_err" -> [file |-> f, result |-> "Failed to create auth store dir"]
      [] io = "open_err" -> [file |-> f, result |-> "Write auth store"]
      [] io = "write_err" -> [file |-> CorruptFile, result |-> "Write auth store"]

\* no filter on the provider field
ProfilesOfAnyProvider(store, provider) == DOMAIN store.profiles

\* .filter(|(_, p)| p.provider == provider)
ProfilesOf(store, provider) ==
    {id \in DOMAIN store.profiles : store.profiles[id].provider = provider}

\* profile_count_for_provider, on the loaded store
profile_count_for_provider(f, provider) ==
    LET p == ToLowercase(Trim(provider))
    IN IF p = <<>> THEN 0 ELSE Cardinality(ProfilesOf(load_store(f), p))

SetMin(S) == CHOOSE x \in S : \A y \in S : x <= y

---------------------------------------------------------------------------
(* Return values *)

Ok(v) == [ok |-> TRUE, val |-> v, err |-> ""]
Err(msg) == [ok |-> FALSE, val |-> None, err |-> msg]

---------------------------------------------------------------------------
(* upsert_env_profile *)

NormalizeKind(kind) ==
    IF Trim(kind) = <<>> THEN ApiKeyKind ELSE ToLowercase(Trim(kind))

\* every new profile gets the default priority
NextPriorityDefault(store, provider) == DefaultPriority

\* the new profile is ranked after the provider's profiles
NextPriorityAfterLast(store, provider) ==
    IF ProfilesOf(store, provider) = {} THEN DefaultPriority
    ELSE 1 - SetMin({0 - store.profiles[id].priority : id \in ProfilesOf(store, provider)})

\* min priority among the provider's profiles, 100 if it has none
NextPriority(store, provider) ==
    IF ProfilesOf(store, provider) = {} THEN DefaultPriority
    ELSE SetMin({store.profiles[id].priority : id \in ProfilesOf(store, provider)})

UpsertStore(store, provider, profile_name, env_var, kind) ==
    LET profile_id == FormatProfileId(provider, profile_name)
        next_priority == NextPriority(store, provider)
    IN [store EXCEPT
          !.profiles = MapInsert(@, profile_id,
              StoredAuthProfile(provider, NormalizeKind(kind), env_var, next_priority)),
          !.last_good = MapInsert(@, provider, profile_id)]

\* the profile name is trimmed but not lower-cased
UpsertNameAsGiven(f, provider_in, profile_name_in, env_var_in, kind, io) ==
    LET provider == ToLowercase(Trim(provider_in))
        profile_name == Trim(profile_name_in)
        env_var == Trim(env_var_in)
    IN IF provider = <<>> \/ profile_name = <<>> \/ env_var = <<>>
       THEN [file |-> f, wrote |-> FALSE,
             ret |-> Err("provider/profile/env_var cannot be empty")]
       ELSE LET store == UpsertStore(load_store(f), provider, profile_name, env_var, kind)
                saved == save_store(f, store, io)
            IN [file |-> saved.file, wrote |-> SaveWrites(io),
                ret |-> IF saved.result = "Ok"
                        THEN Ok(FormatProfileId(provider, profile_name))
                        ELSE Err(saved.result)]

\* an empty env_var is accepted
UpsertAcceptsEmptyEnvVar(f, provider_in, profile_name_in, env_var_in, kind, io) ==
    LET provider == ToLowercase(Trim(provider_in))
        profile_name == ToLowercase(Trim(profile_name_in))
        env_var == Trim(env_var_in)
    IN IF provider = <<>> \/ profile_name = <<>>
       THEN [file |-> f, wrote |-> FALSE,
             ret |-> Err("provider/profile/env_var cannot be empty")]
       ELSE LET store == UpsertStore(load_store(f), provider, profile_name, env_var, kind)
                saved == save_store(f, store, IF env_var = <<>> THEN "ok" ELSE io)
            IN [file |-> saved.file, wrote |-> TRUE,
                ret |-> IF saved.result = "Ok"
                        THEN Ok(FormatProfileId(provider, profile_name))
                        ELSE Err(saved.result)]

upsert_env_profile(f, provider_in, profile_name_in, env_var_in, kind, io) ==
    LET provider == ToLowercase(Trim(provider_in))
        profile_name == ToLowercase(Trim(profile_name_in))
        env_var == Trim(env_var_in)
    IN IF provider = <<>> \/ profile_name = <<>> \/ env_var = <<>>
       THEN [file |-> f, wrote |-> FALSE,
             ret |-> Err("provider/profile/env_var cannot be empty")]
       ELSE LET store == UpsertStore(load_store(f), provider, profile_name, env_var, kind)
                saved == save_store(f, store, io)
            IN [file |-> saved.file, wrote |-> SaveWrites(io),
                ret |-> IF saved.result = "Ok"
                        THEN Ok(FormatProfileId(provider, profile_name))
                        ELSE Err(saved.result)]

---------------------------------------------------------------------------
(* remove_profile *)

\* the order list is emptied
RetainNothing(order, profile_id) == <<>>

\* order.retain(|id| id != &profile_id)
Retain(order, profile_id) == SelectSeq(order, LAMBDA id : id # profile_id)

\* last_good is left as it is
RemoveKeepsLastGood(store, provider, profile_id) ==
    LET order == IF provider \in DOMAIN store.order
                 THEN IF Retain(store.order[provider], profile_id) = <<>>
                      THEN MapRemove(store.order, provider)
                      ELSE [store.order EXCEPT ![provider] = Retain(@, profile_id)]
                 ELSE store.order
    IN [store EXCEPT
          !.profiles = MapRemove(@, profile_id),
          !.order = order,
          !.usage_stats = MapRemove(@, profile_id)]

RemoveFromStore(store, provider, profile_id) ==
    LET last_good == IF provider \in DOMAIN store.last_good
                        /\ store.last_good[provider] = profile_id
                     THEN MapRemove(store.last_good, provider)
                     ELSE store.last_good
        order == IF provider \in DOMAIN store.order
                 THEN IF Retain(store.order[provider], profile_id) = <<>>
                      THEN MapRemove(store.order, provider)
                      ELSE [store.order EXCEPT ![provider] = Retain(@, profile_id)]
                 ELSE store.order
    IN [store EXCEPT
          !.profiles = MapRemove(@, profile_id),
          !.last_good = last_good,
          !.order = order,
          !.usage_stats = MapRemove(@, profile_id)]

\* the store is saved whether or not a profile was removed
RemoveAlwaysSaves(f, provider_in, profile_name_in, io) ==
    LET provider == ToLowercase(Trim(provider_in))
        profile_name == ToLowercase(Trim(profile_name_in))
        profile_id == FormatProfileId(provider, profile_name)
        store == load_store(f)
        removed == profile_id \in DOMAIN store.profiles
    IN IF provider = <<>> \/ profile_name = <<>>
       THEN [file |-> f, wrote |-> FALSE, ret |-> Ok(FALSE)]
       ELSE LET saved == save_store(f, IF removed
                                       THEN RemoveFromStore(store, provider, profile_id)
                                       ELSE store,
                                    IF removed THEN io ELSE "ok")
            IN [file |-> saved.file, wrote |-> TRUE,
                ret |-> IF saved.result = "Ok" THEN Ok(removed) ELSE Err(saved.result)]

remove_profile(f, provider_in, profile_name_in, io) ==
    LET provider == ToLowercase(Trim(provider_in))
        profile_name == ToLowercase(Trim(profile_name_in))
        profile_id == FormatProfileId(provider, profile_name)
        store == load_store(f)
        removed == profile_id \in DOMAIN store.profiles
    IN IF provider = <<>> \/ profile_name = <<>>
       THEN [file |-> f, wrote |-> FALSE, ret |-> Ok(FALSE)]
       ELSE IF ~removed
       THEN [file |-> f, wrote |-> FALSE, ret |-> Ok(FALSE)]
       ELSE LET saved == save_store(f, RemoveFromStore(store, provider, profile_id), io)
            IN [file |-> saved.file, wrote |-> SaveWrites(io),
                ret |-> IF saved.result = "Ok" THEN Ok(TRUE) ELSE Err(saved.result)]

---------------------------------------------------------------------------
(* touch_last_good *)

\* the provider key is trimmed but not lower-cased
TouchProviderAsGiven(f, provider_in, profile_id_in, io) ==
    LET provider == Trim(provider_in)
        profile_id == Trim(profile_id_in)
    IN IF provider = <<>> \/ profile_id = <<>>
       THEN [file |-> f, wrote |-> FALSE, ret |-> Ok(None)]
       ELSE LET store == [load_store(f) EXCEPT
                            !.last_good = MapInsert(@, provider, profile_id)]
                saved == save_store(f, store, io)
            IN [file |-> saved.file, wrote |-> SaveWrites(io),
                ret |-> IF saved.result = "Ok" THEN Ok(None) ELSE Err(saved.result)]

touch_last_good(f, provider_in, profile_id_in, io) ==
    LET provider == ToLowercase(Trim(provider_in))
        profile_id == Trim(profile_id_in)
    IN IF provider = <<>> \/ profile_id = <<>>
       THEN [file |-> f, wrote |-> FALSE, ret |-> Ok(None)]
       ELSE LET store == [load_store(f) EXCEPT
                            !.last_good = MapInsert(@, provider, profile_id)]
                saved == save_store(f, store, io)
            IN [file |-> saved.file, wrote |-> SaveWrites(io),
                ret |-> IF saved.result = "Ok" THEN Ok(None) ELSE Err(saved.result)]

---------------------------------------------------------------------------
(* resolve_env_var_for_provider *)

UsizeMax == 2147483647

\* ordered_ids.iter().position(|pid| pid == id).unwrap_or(usize::MAX)
OrderRank(ordered_ids, id) ==
    IF \E i \in 1..Len(ordered_ids) : ordered_ids[i] = id
    THEN SetMin({i \in 1..Len(ordered_ids) : ordered_ids[i] = id}) - 1
    ELSE UsizeMax

\* last_good does not enter the key
SortKeyWithoutLastGood(store, provider, id) ==
    LET ordered_ids == IF provider \in DOMAIN store.order
                       THEN store.order[provider] ELSE <<>>
    IN <<1, OrderRank(ordered_ids, id), store.profiles[id].priority>>

\* order list ranked before last_good
SortKeyOrderFirst(store, provider, id) ==
    LET ordered_ids == IF provider \in DOMAIN store.order
                       THEN store.order[provider] ELSE <<>>
        last_good_rank == IF provider \in DOMAIN store.last_good
                             /\ store.last_good[provider] = id
                          THEN 0 ELSE 1
    IN <<OrderRank(ordered_ids, id), last_good_rank, store.profiles[id].priority>>

\* the key of sort_by_key: (last_good_rank, order_rank, priority)
SortKey(store, provider, id) ==
    LET ordered_ids == IF provider \in DOMAIN store.order
                       THEN store.order[provider] ELSE <<>>
        last_good_rank == IF provider \in DOMAIN store.last_good
                             /\ store.last_good[provider] = id
                          THEN 0 ELSE 1
    IN <<last_good_rank, OrderRank(ordered_ids, id), store.profiles[id].priority>>

\* Ord on the key tuple
KeyLess(a, b) ==
    \/ a[1] < b[1]
    \/ a[1] = b[1] /\ a[2] < b[2]
    \/ a[1] = b[1] /\ a[2] = b[2] /\ a[3] < b[3]

KeyLeq(a, b) == ~KeyLess(b, a)

\* one insertion of a stable sort: x goes after every element whose key is <= its own
RECURSIVE InsertStable(_, _, _, _)
InsertStable(sorted, x, store, provider) ==
    IF sorted = <<>> THEN <<x>>
    ELSE IF KeyLess(SortKey(store, provider, x), SortKey(store, provider, Head(sorted)))
         THEN <<x>> \o sorted
         ELSE <<Head(sorted)>> \o InsertStable(Tail(sorted), x, store, provider)

\* candidates.sort_by_key(..): a stable sort
RECURSIVE SortByKey(_, _, _)
SortByKey(candidates, store, provider) ==
    IF candidates = <<>> THEN <<>>
    ELSE InsertStable(
             SortByKey(SubSeq(candidates, 1, Len(candidates) - 1), store, provider),
             candidates[Len(candidates)], store, provider)

\* a whitespace-only value counts as a secret
HasSecretUntrimmed(e, name) == name \in DOMAIN e /\ e[name] # <<>>

\* std::env::var(name).ok().map(|v| !v.trim().is_empty()).unwrap_or(false)
HasSecret(e, name) == name \in DOMAIN e /\ Trim(e[name]) # <<>>

\* the cooldown still holds at the instant it ends
InCooldownInclusive(store, id, t) ==
    /\ id \in DOMAIN store.usage_stats
    /\ store.usage_stats[id].cooldown_until_ms # None
    /\ store.usage_stats[id].cooldown_until_ms[1] >= t

InCooldown(store, id, t) ==
    /\ id \in DOMAIN store.usage_stats
    /\ store.usage_stats[id].cooldown_until_ms # None
    /\ store.usage_stats[id].cooldown_until_ms[1] > t

\* the body of the for loop: TRUE when the candidate is skipped
Skipped(store, e, t, id) ==
    \/ Trim(store.profiles[id].env_var) = <<>>
    \/ InCooldown(store, id, t)
    \/ ~HasSecret(e, store.profiles[id].env_var)

RECURSIVE Walk(_, _, _, _)
Walk(candidates, store, e, t) ==
    IF candidates = <<>> THEN None
    ELSE IF Skipped(store, e, t, Head(candidates))
         THEN Walk(Tail(candidates), store, e, t)
         ELSE Some([profile_id |-> Head(candidates),
                    env_var |-> store.profiles[Head(candidates)].env_var])

\* the orders in which HashMap::iter() may yield the ids of S
IterOrders(S) ==
    {s \in [1..Cardinality(S) -> S] : \A i, j \in 1..Cardinality(S) : s[i] = s[j] => i = j}

\* iter is the order in which store.profiles.iter() yields the provider's profiles
resolve_env_var_for_provider(f, e, t, provider_in, iter) ==
    LET provider == ToLowercase(Trim(provider_in))
        store == load_store(f)
    IN IF provider = <<>> THEN None
       ELSE IF iter = <<>> THEN None
       ELSE Walk(SortByKey(iter, store, provider), store, e, t)

---------------------------------------------------------------------------
(* Inputs *)

RawProviders == {<<" ", "O">>, <<"g">>, <<" ">>}
RawProfileNames == {<<"d">>, <<"B", " ">>, <<>>}
RawEnvVars == {<<" ", "K">>, <<>>}
RawKinds == {<<" ", "T">>}
RawProfileIds == {<<"o", ":", "b">>, <<" ", "O", ":", "D">>, <<" ">>}
EnvK == <<"K">>
EnvL == <<"L">>
EnvValues == {<<" ">>, <<"s">>}

\* the documents the file may hold at start: none, or one written earlier or
\* edited out of process (order lists, usage stats, dangling references)
OD == <<"o", ":", "d">>
OB == <<"o", ":", "b">>
OC == <<"o", ":", "c">>
GD == <<"g", ":", "d">>
Ghost == <<"o", ":", "x">>
ProvO == <<"o">>
ProvG == <<"g">>

TokenKind == <<"t">>

SeedProfiles(pd, pb) ==
    (OD :> StoredAuthProfile(ProvO, TokenKind, EnvK, pd))
    @@ (OB :> StoredAuthProfile(ProvO, TokenKind, EnvL, pb))
    @@ (GD :> StoredAuthProfile(ProvG, TokenKind, EnvL, DefaultPriority))

SeedStores ==
    { [version |-> STORE_VERSION,
       profiles |-> SeedProfiles(100, 50),
       order |-> EmptyMap, last_good |-> EmptyMap, usage_stats |-> EmptyMap],
      [version |-> STORE_VERSION,
       profiles |-> SeedProfiles(100, 50),
       order |-> (ProvO :> <<Ghost, OD>>) @@ (ProvG :> <<GD>>),
       last_good |-> (ProvO :> OB) @@ (ProvG :> OD),
       usage_stats |-> (OB :> ProfileUsageStats(Some(1)))
                       @@ (OD :> ProfileUsageStats(None))
                       @@ (Ghost :> ProfileUsageStats(Some(2)))],
      [version |-> STORE_VERSION,
       profiles |-> [SeedProfiles(50, 100) EXCEPT ![OD].env_var = <<" ">>],
       order |-> (ProvO :> <<OB>>),
       last_good |-> (ProvO :> Ghost),
       usage_stats |-> (OD :> ProfileUsageStats(Some(1)))],
      [version |-> STORE_VERSION,
       profiles |-> (OD :> StoredAuthProfile(ProvO, TokenKind, EnvK, 100))
                    @@ (OB :> StoredAuthProfile(ProvO, TokenKind, EnvL, 100))
                    @@ (OC :> StoredAuthProfile(ProvO, TokenKind, EnvL, 50)),
       order |-> (ProvO :> <<OC, OB>>),
       last_good |-> (ProvO :> OD),
       usage_stats |-> (OC :> ProfileUsageStats(Some(1)))],
      [version |-> STORE_VERSION,
       profiles |-> SeedProfiles(100, 100),
       order |-> EmptyMap, last_good |-> EmptyMap, usage_stats |-> EmptyMap] }

InitFiles == {MissingFile} \cup {DocFile(store) : store \in SeedStores}

---------------------------------------------------------------------------
(* The state machine *)

NoArg == <<>>

Call(op, provider, profile_name, env_var, kind, profile_id, t, r) ==
    [op |-> op, provider |-> provider, profile_name |-> profile_name,
     env_var |-> env_var, kind |-> kind, profile_id |-> profile_id, now |-> t,
     ret |-> r.ret, wrote |-> r.wrote]

NoCall(op) ==
    Call(op, NoArg, NoArg, NoArg, NoArg, NoArg, 0, [ret |-> Ok(None), wrote |-> FALSE])

\* the independent processes, none of which has started its call
ProcIds == {1, 2}

NotStarted ==
    [pc |-> "start", op |-> "none", provider |-> NoArg, profile_name |-> NoArg,
     env_var |-> NoArg, kind |-> NoArg, profile_id |-> NoArg, seen |-> MissingFile,
     ret |-> Ok(None), load_step |-> 0, save_step |-> 0]

Init ==
    /\ file \in InitFiles
    /\ env = (EnvL :> <<"s">>)
    /\ last = NoCall("idle")
    /\ pre = file
    /\ procs = [p \in ProcIds |-> NotStarted]
    /\ ApiNotStarted
    /\ WizardNotStarted

NonBlank(s) == Trim(s) # <<>>

\* the caller is between two calls
Idle == last.op = "idle"

Upsert ==
    /\ Idle
    /\ \E provider \in RawProviders, profile_name \in RawProfileNames,
       env_var \in RawEnvVars, kind \in RawKinds :
      \E io \in IoChoices(NonBlank(provider) /\ NonBlank(profile_name) /\ NonBlank(env_var)) :
        LET r == upsert_env_profile(file, provider, profile_name, env_var, kind, io)
        IN /\ Cardinality(DOMAIN load_store(r.file).profiles) <= MaxProfiles
           /\ file' = r.file
           /\ last' = Call("upsert", provider, profile_name, env_var, kind, NoArg, 0, r)
           /\ pre' = file
           /\ UNCHANGED <<env, outsideCaller>>

Remove ==
    /\ Idle
    /\ \E provider \in RawProviders, profile_name \in RawProfileNames :
      \E io \in IoChoices(FormatProfileId(ToLowercase(Trim(provider)),
                                          ToLowercase(Trim(profile_name)))
                             \in DOMAIN load_store(file).profiles) :
        LET r == remove_profile(file, provider, profile_name, io)
        IN /\ file' = r.file
           /\ last' = Call("remove", provider, profile_name, NoArg, NoArg, NoArg, 0, r)
           /\ pre' = file
           /\ UNCHANGED <<env, outsideCaller>>

TouchLastGood ==
    /\ Idle
    /\ \E provider \in RawProviders, profile_id \in RawProfileIds :
      \E io \in IoChoices(NonBlank(provider) /\ NonBlank(profile_id)) :
        LET r == touch_last_good(file, provider, profile_id, io)
        IN /\ file' = r.file
           /\ last' = Call("touch", provider, NoArg, NoArg, NoArg, profile_id, 0, r)
           /\ pre' = file
           /\ UNCHANGED <<env, outsideCaller>>

\* a resolve that finds a profile records it as last_good
ResolvePinsResult ==
    /\ Idle
    /\ \E provider \in RawProviders, t \in 0..MaxTime :
      \E iter \in IterOrders(ProfilesOf(load_store(file), ToLowercase(Trim(provider)))) :
        LET found == resolve_env_var_for_provider(file, env, t, provider, iter)
            r == [ret |-> Ok(found), wrote |-> found # None]
        IN /\ last' = Call("resolve", provider, NoArg, NoArg, NoArg, NoArg, t, r)
           /\ pre' = file
           /\ file' = IF found = None THEN file
                      ELSE touch_last_good(file, provider, found[1].profile_id, "ok").file
           /\ UNCHANGED <<env, outsideCaller>>

\* now_ms() reads the wall clock (SystemTime::now), which need not be monotonic
Resolve ==
    /\ Idle
    /\ \E provider \in RawProviders, t \in 0..MaxTime :
      \E iter \in IterOrders(ProfilesOf(load_store(file), ToLowercase(Trim(provider)))) :
        LET r == [ret |-> Ok(resolve_env_var_for_provider(file, env, t, provider, iter)),
                  wrote |-> FALSE]
        IN /\ last' = Call("resolve", provider, NoArg, NoArg, NoArg, NoArg, t, r)
           /\ pre' = file
           /\ UNCHANGED <<file, env, outsideCaller>>

\* std::env::set_var / remove_var on the credential variable
SetEnv ==
    /\ Idle
    /\ \E value \in EnvValues :
        /\ env' = MapInsert(env, EnvK, value)
        /\ UNCHANGED <<file, last, pre, outsideCaller>>

RemoveEnv ==
    /\ Idle
    /\ EnvK \in DOMAIN env
    /\ env' = MapRemove(env, EnvK)
    /\ UNCHANGED <<file, last, pre, outsideCaller>>

\* the caller takes the return value; the calls are synchronous
Return ==
    /\ ~Idle
    /\ last' = NoCall("idle")
    /\ pre' = file
    /\ UNCHANGED <<file, env, outsideCaller>>

Next ==
    \/ Upsert
    \/ Remove
    \/ TouchLastGood
    \/ Resolve
    \/ SetEnv
    \/ RemoveEnv
    \/ Return

Spec == Init /\ [][Next]_vars

\* the same program started on an empty store (no file yet)
InitEmpty ==
    /\ file = MissingFile
    /\ env = (EnvL :> <<"s">>)
    /\ last = NoCall("idle")
    /\ pre = file
    /\ procs = [p \in ProcIds |-> NotStarted]
    /\ ApiNotStarted
    /\ WizardNotStarted

SpecEmpty == InitEmpty /\ [][Next]_vars

---------------------------------------------------------------------------
(* Independent processes on one store file.  A store call is a load, a      *)
(* change of the loaded document in memory, and a save of the whole         *)
(* document; nothing locks the file between the load and the save.  Each    *)
(* process makes one call, in two steps: ProcLoad is the call up to and     *)
(* including load_store, ProcSave is the rest.                              *)

\* the number of this step among the steps of all processes
StepNumber ==
    1 + Cardinality({p \in ProcIds : procs[p].load_step > 0})
      + Cardinality({p \in ProcIds : procs[p].save_step > 0})

\* the document the process changes and saves: the one it loaded
SnapshotReloaded(proc, f) == load_store(f)

Snapshot(proc, f) == load_store(proc.seen)

\* arguments after trimming and lower-casing
ProcProvider(proc) == ToLowercase(Trim(proc.provider))
ProcProfileName(proc) == ToLowercase(Trim(proc.profile_name))

\* the call returns before load_store
ReturnsEarly(proc) ==
    CASE proc.op = "upsert" ->
            \/ ProcProvider(proc) = <<>>
            \/ ProcProfileName(proc) = <<>>
            \/ Trim(proc.env_var) = <<>>
      [] proc.op = "remove" -> ProcProvider(proc) = <<>> \/ ProcProfileName(proc) = <<>>
      [] proc.op = "touch" -> ProcProvider(proc) = <<>> \/ Trim(proc.profile_id) = <<>>

EarlyReturn(proc) ==
    CASE proc.op = "upsert" -> Err("provider/profile/env_var cannot be empty")
      [] proc.op = "remove" -> Ok(FALSE)
      [] proc.op = "touch" -> Ok(None)

\* remove_profile saves only if the loaded document had the profile
NothingToSave(proc, f) ==
    /\ proc.op = "remove"
    /\ FormatProfileId(ProcProvider(proc), ProcProfileName(proc))
          \notin DOMAIN load_store(f).profiles

\* the document the process saves
ChangedStore(proc, f) ==
    LET store == Snapshot(proc, f)
        provider == ProcProvider(proc)
    IN CASE proc.op = "upsert" ->
               UpsertStore(store, provider, ProcProfileName(proc), Trim(proc.env_var),
                           proc.kind)
         [] proc.op = "remove" ->
               RemoveFromStore(store, provider,
                               FormatProfileId(provider, ProcProfileName(proc)))
         [] proc.op = "touch" ->
               [store EXCEPT !.last_good = MapInsert(@, provider, Trim(proc.profile_id))]

SavedReturn(proc) ==
    CASE proc.op = "upsert" ->
            Ok(FormatProfileId(ProcProvider(proc), ProcProfileName(proc)))
      [] proc.op = "remove" -> Ok(TRUE)
      [] proc.op = "touch" -> Ok(None)

ProcCalls ==
    {[NotStarted EXCEPT !.op = "upsert", !.provider = provider,
                        !.profile_name = profile_name, !.env_var = env_var, !.kind = kind] :
        provider \in RawProviders, profile_name \in RawProfileNames,
        env_var \in RawEnvVars, kind \in RawKinds}
    \cup {[NotStarted EXCEPT !.op = "remove", !.provider = provider,
                             !.profile_name = profile_name] :
        provider \in RawProviders, profile_name \in RawProfileNames}
    \cup {[NotStarted EXCEPT !.op = "touch", !.provider = provider,
                             !.profile_id = profile_id] :
        provider \in RawProviders, profile_id \in RawProfileIds}

ProcLoad ==
    \E p \in ProcIds : \E call \in ProcCalls :
        /\ procs[p].pc = "start"
        /\ procs' = [procs EXCEPT ![p] =
              IF ReturnsEarly(call)
              THEN [call EXCEPT !.pc = "done", !.ret = EarlyReturn(call)]
              ELSE IF NothingToSave(call, file)
              THEN [call EXCEPT !.pc = "done", !.seen = file, !.ret = Ok(FALSE),
                                !.load_step = StepNumber]
              ELSE [call EXCEPT !.pc = "loaded", !.seen = file,
                                !.load_step = StepNumber]]
        /\ UNCHANGED <<file, outsideProcs>>

ProcSave ==
    \E p \in ProcIds : \E io \in SaveOutcomes :
        /\ procs[p].pc = "loaded"
        /\ LET saved == save_store(file, ChangedStore(procs[p], file), io)
           IN /\ file' = saved.file
              /\ procs' = [procs EXCEPT ![p] =
                    [procs[p] EXCEPT
                        !.pc = "done", !.save_step = StepNumber,
                        !.ret = IF saved.result = "Ok" THEN SavedReturn(procs[p])
                                ELSE Err(saved.result)]]
        /\ UNCHANGED outsideProcs

NextRace ==
    \/ ProcLoad
    \/ ProcSave

SpecRace == Init /\ [][NextRace]_vars

---------------------------------------------------------------------------
(* API authentication gate of openfang-api                                  *)
(* (crates/openfang-api/src/middleware.rs).  Here strings are TLA+ strings, *)
(* read with Len and SubSeq.                                                *)

CharAt(s, i) == SubSeq(s, i, i)

RECURSIVE TrimStartStr(_)
TrimStartStr(s) ==
    IF Len(s) > 0 /\ IsWhitespace(CharAt(s, 1))
    THEN TrimStartStr(SubSeq(s, 2, Len(s)))
    ELSE s

RECURSIVE TrimEndStr(_)
TrimEndStr(s) ==
    IF Len(s) > 0 /\ IsWhitespace(CharAt(s, Len(s)))
    THEN TrimEndStr(SubSeq(s, 1, Len(s) - 1))
    ELSE s

\* str::trim
TrimStr(s) == TrimEndStr(TrimStartStr(s))

\* str::strip_prefix
StripPrefix(s, prefix) ==
    IF Len(s) >= Len(prefix) /\ SubSeq(s, 1, Len(prefix)) = prefix
    THEN Some(SubSeq(s, Len(prefix) + 1, Len(s)))
    ELSE None

\* the index of the first occurrence of the character in s, 0 if there is none
RECURSIVE FindChar(_, _, _)
FindChar(s, c, i) ==
    IF i > Len(s) THEN 0
    ELSE IF CharAt(s, i) = c THEN i
    ELSE FindChar(s, c, i + 1)

\* str::split on one character
RECURSIVE Split(_, _)
Split(s, c) ==
    LET i == FindChar(s, c, 1)
    IN IF i = 0 THEN <<s>>
       ELSE <<SubSeq(s, 1, i - 1)>> \o Split(SubSeq(s, i + 1, Len(s)), c)

\* .find_map(|pair| pair.strip_prefix(prefix))
RECURSIVE FindMapStripPrefix(_, _)
FindMapStripPrefix(pairs, prefix) ==
    IF pairs = <<>> THEN None
    ELSE IF StripPrefix(Head(pairs), prefix) # None THEN StripPrefix(Head(pairs), prefix)
    ELSE FindMapStripPrefix(Tail(pairs), prefix)

\* std::env::var(name).ok().filter(|v| !v.trim().is_empty())
EnvSecret(e, name) ==
    IF name \in DOMAIN e /\ TrimStr(e[name]) # "" THEN Some(e[name]) ELSE None

\* the address literals that str::parse::<IpAddr> accepts, among the strings
\* of the model
IpLiterals == {"127.0.0.1", "10.0.0.1", "10.0.0.2", "::1"}

ParseIpAddr(v) == IF v \in IpLiterals THEN Some(v) ELSE None

\* IpAddr::is_loopback: 127.0.0.0/8 and ::1
IsLoopback(ip) == StripPrefix(ip, "127.") # None \/ ip = "::1"

\* .iter().filter_map(|v| v.parse::<IpAddr>().ok()).collect()
RECURSIVE ParseTrustedIps(_)
ParseTrustedIps(trusted_ips) ==
    IF trusted_ips = <<>> THEN <<>>
    ELSE ParseIpAddr(Head(trusted_ips)) \o ParseTrustedIps(Tail(trusted_ips))

DefaultUserHeader == "x-openfang-user"

\* a configured Token mode is kept whatever was resolved
RuntimeModeAsConfigured(mode, token, password) ==
    IF mode = "None" THEN "LocalhostOnly" ELSE mode

\* match config.api_auth.mode
RuntimeMode(mode, token, password) ==
    CASE mode = "None" -> "LocalhostOnly"
      [] mode = "Token" -> IF token # None THEN "Token" ELSE "LocalhostOnly"
      [] mode = "Password" -> IF password # None THEN "Password" ELSE "LocalhostOnly"
      [] mode = "TrustedProxy" -> "TrustedProxy"

\* without a password variable the configured api_key is the password
PasswordFromApiKey(cfg, e) ==
    LET token == IF TrimStr(cfg.api_key) # "" THEN Some(cfg.api_key)
                 ELSE IF TrimStr(cfg.api_auth.token_env) = "" THEN None
                 ELSE EnvSecret(e, cfg.api_auth.token_env)
        password == IF EnvSecret(e, cfg.api_auth.password_env) # None
                    THEN EnvSecret(e, cfg.api_auth.password_env)
                    ELSE token
    IN [mode |-> RuntimeMode(cfg.api_auth.mode, token, password),
        token |-> token,
        password |-> password,
        trusted_proxy_user_header |->
            IF TrimStr(cfg.api_auth.trusted_proxy.user_header) = ""
            THEN DefaultUserHeader
            ELSE cfg.api_auth.trusted_proxy.user_header,
        trusted_proxy_ips |-> ParseTrustedIps(cfg.api_auth.trusted_proxy.trusted_ips)]

from_kernel_config(cfg, e) ==
    LET token == IF TrimStr(cfg.api_key) # "" THEN Some(cfg.api_key)
                 ELSE IF TrimStr(cfg.api_auth.token_env) = "" THEN None
                 ELSE EnvSecret(e, cfg.api_auth.token_env)
        password == IF TrimStr(cfg.api_auth.password_env) = "" THEN None
                    ELSE EnvSecret(e, cfg.api_auth.password_env)
    IN [mode |-> RuntimeMode(cfg.api_auth.mode, token, password),
        token |-> token,
        password |-> password,
        trusted_proxy_user_header |->
            IF TrimStr(cfg.api_auth.trusted_proxy.user_header) = ""
            THEN DefaultUserHeader
            ELSE cfg.api_auth.trusted_proxy.user_header,
        trusted_proxy_ips |-> ParseTrustedIps(cfg.api_auth.trusted_proxy.trusted_ips)]

\* http::HeaderName from a str: letters are lower-cased, and a name with a
\* character that is not allowed in a header name is no header name
HeaderNameChars ==
    {"a", "b", "c", "d", "e", "f", "g", "h", "i", "j", "k", "l", "m", "n", "o", "p",
     "q", "r", "s", "t", "u", "v", "w", "x", "y", "z", "-"}

AsciiLower(c) ==
    CASE c = "X" -> "x"
      [] c = "U" -> "u"
      [] OTHER -> c

RECURSIVE LowerStr(_)
LowerStr(s) ==
    IF s = "" THEN ""
    ELSE AsciiLower(CharAt(s, 1)) \o LowerStr(SubSeq(s, 2, Len(s)))

AsHeaderName(name) ==
    IF name # "" /\ \A i \in 1..Len(name) : AsciiLower(CharAt(name, i)) \in HeaderNameChars
    THEN Some(LowerStr(name))
    ELSE None

\* HeaderValue::to_str: the value if all its bytes are visible ASCII
OpaqueBytes == {"é"}

ToStr(v) ==
    IF \E i \in 1..Len(v) : CharAt(v, i) \in OpaqueBytes THEN None ELSE Some(v)

\* HeaderMap::get: the first value under the name
RECURSIVE FirstValue(_, _)
FirstValue(headers, key) ==
    IF headers = <<>> THEN None
    ELSE IF Head(headers)[1] = key THEN Some(Head(headers)[2])
    ELSE FirstValue(Tail(headers), key)

HeaderGet(headers, name) ==
    IF AsHeaderName(name) = None THEN None
    ELSE FirstValue(headers, AsHeaderName(name)[1])

\* headers.get(name).and_then(|v| v.to_str().ok())
HeaderStr(headers, name) ==
    IF HeaderGet(headers, name) = None THEN None
    ELSE ToStr(HeaderGet(headers, name)[1])

\* ConnectInfo extension of the request, if the server attached one
get_remote_ip(request) == request.remote

\* the steps safe_equal_secret takes: the length check, and ct_eq after it
\* only for inputs of one length
SafeEqualSteps(input, expected) ==
    IF Len(input) # Len(expected) THEN <<"len">> ELSE <<"len", "ct_eq">>

\* no length check: the bytes are compared over the shorter length
SafeEqualPrefix(input, expected) ==
    \A i \in 1..(IF Len(input) < Len(expected) THEN Len(input) ELSE Len(expected)) :
        CharAt(input, i) = CharAt(expected, i)

safe_equal_secret(input, expected) ==
    IF Len(input) # Len(expected) THEN FALSE
    ELSE \A i \in 1..Len(input) : CharAt(input, i) = CharAt(expected, i)

query_value(query, key) ==
    IF query = None THEN None
    ELSE FindMapStripPrefix(Split(query[1], "&"), key \o "=")

\* the remote address is not looked up in the trusted list
TrustedProxyHeaderOnly(state, headers, remote_ip) ==
    LET v == HeaderStr(headers, state.trusted_proxy_user_header)
    IN IF v = None THEN FALSE ELSE TrimStr(v[1]) # ""

trusted_proxy_ok(state, headers, remote_ip) ==
    IF state.trusted_proxy_ips = <<>> THEN FALSE
    ELSE IF ~(\E i \in 1..Len(state.trusted_proxy_ips) : state.trusted_proxy_ips[i] = remote_ip)
    THEN FALSE
    ELSE LET v == HeaderStr(headers, state.trusted_proxy_user_header)
         IN IF v = None THEN FALSE ELSE TrimStr(v[1]) # ""

\* Option<&str>::map(|candidate| safe_equal_secret(candidate, secret)).unwrap_or(false)
MatchesSecret(candidate, secret) ==
    IF candidate = None THEN FALSE ELSE safe_equal_secret(candidate[1], secret)

\* self.token.as_deref().unwrap_or("")
UnwrapOrEmpty(secret) == IF secret = None THEN "" ELSE secret[1]

HeaderBearer(headers) ==
    LET v == HeaderStr(headers, "authorization")
    IN IF v = None THEN None ELSE StripPrefix(v[1], "Bearer ")

\* the upgrade reads credentials from the headers only
WsUpgradeHeadersOnly(state, headers, query, remote_ip) ==
    CASE state.mode = "LocalhostOnly" -> IsLoopback(remote_ip)
      [] state.mode = "Token" ->
            IF state.token = None THEN IsLoopback(remote_ip)
            ELSE MatchesSecret(HeaderBearer(headers), state.token[1])
      [] state.mode = "Password" ->
            IF state.password = None THEN IsLoopback(remote_ip)
            ELSE MatchesSecret(HeaderStr(headers, "x-openfang-password"),
                               state.password[1])
      [] state.mode = "TrustedProxy" -> trusted_proxy_ok(state, headers, remote_ip)

authorize_ws_upgrade(state, headers, query, remote_ip) ==
    CASE state.mode = "LocalhostOnly" -> IsLoopback(remote_ip)
      [] state.mode = "Token" ->
            IF state.token = None THEN IsLoopback(remote_ip)
            ELSE \/ MatchesSecret(HeaderBearer(headers), state.token[1])
                 \/ MatchesSecret(query_value(query, "token"), state.token[1])
      [] state.mode = "Password" ->
            IF state.password = None THEN IsLoopback(remote_ip)
            ELSE \/ MatchesSecret(HeaderStr(headers, "x-openfang-password"),
                                  state.password[1])
                 \/ MatchesSecret(query_value(query, "password"), state.password[1])
      [] state.mode = "TrustedProxy" -> trusted_proxy_ok(state, headers, remote_ip)

\* next.run(request): the request goes on to the handlers behind the gate
Forwarded == [forwarded |-> TRUE, status |-> 0, headers |-> <<>>, error |-> ""]

Denied(status, headers, error) ==
    [forwarded |-> FALSE, status |-> status, headers |-> headers, error |-> error]

\* the uploads prefix is taken without its final slash
PublicUploadsWithoutSlash(path) ==
    \/ path \in {"/", "/api/health", "/api/health/detail", "/api/status", "/api/version",
                 "/api/agents", "/api/profiles", "/api/config"}
    \/ StripPrefix(path, "/api/uploads") # None

IsPublicPath(path) ==
    \/ path = "/"
    \/ path = "/api/health"
    \/ path = "/api/health/detail"
    \/ path = "/api/status"
    \/ path = "/api/version"
    \/ path = "/api/agents"
    \/ path = "/api/profiles"
    \/ path = "/api/config"
    \/ StripPrefix(path, "/api/uploads/") # None

NoAuthConfiguredError ==
    "No API auth configured. Remote access denied. Configure [api_auth] in ~/.openfang/config.toml"

\* the query credential alone decides
TokenOkQueryOnly(state, request) ==
    MatchesSecret(query_value(request.query, "token"), UnwrapOrEmpty(state.token))

TokenOk(state, request) ==
    \/ MatchesSecret(HeaderBearer(request.headers), UnwrapOrEmpty(state.token))
    \/ MatchesSecret(query_value(request.query, "token"), UnwrapOrEmpty(state.token))

\* loopback is not asked for
LocalhostOkAnyAddress(remote_ip) == TRUE

LocalhostOk(remote_ip) == IsLoopback(remote_ip)

auth(state, request) ==
    IF IsPublicPath(request.path) THEN Forwarded
    ELSE
    LET remote_ip == IF get_remote_ip(request) = None THEN "127.0.0.1"
                     ELSE get_remote_ip(request)[1]
    IN CASE state.mode = "LocalhostOnly" ->
              IF LocalhostOk(remote_ip) THEN Forwarded
              ELSE Denied(403, <<<<"content-type", "application/json">>>>,
                          NoAuthConfiguredError)
         [] state.mode = "Token" ->
              LET header_auth == HeaderBearer(request.headers)
                  query_auth == query_value(request.query, "token")
              IN IF TokenOk(state, request) THEN Forwarded
                 ELSE Denied(401, <<<<"www-authenticate", "Bearer">>>>,
                             IF header_auth # None \/ query_auth # None
                             THEN "Invalid API token"
                             ELSE "Missing Authorization: Bearer <token> header")
         [] state.mode = "Password" ->
              LET password == UnwrapOrEmpty(state.password)
                  header_auth == HeaderStr(request.headers, "x-openfang-password")
                  query_auth == query_value(request.query, "password")
              IN IF MatchesSecret(header_auth, password) \/ MatchesSecret(query_auth, password)
                 THEN Forwarded
                 ELSE Denied(401, <<>>,
                             IF header_auth # None \/ query_auth # None
                             THEN "Invalid API password"
                             ELSE "Missing x-openfang-password header")
         [] state.mode = "TrustedProxy" ->
              IF trusted_proxy_ok(state, request.headers, remote_ip) THEN Forwarded
              ELSE Denied(401, <<>>,
                          "Trusted proxy auth failed (expected header '"
                             \o state.trusted_proxy_user_header \o "')")

---------------------------------------------------------------------------
(* Configurations, environments and requests of the model *)

Config(mode, api_key, token_env, password_env, user_header, trusted_ips) ==
    [api_key |-> api_key,
     api_auth |-> [mode |-> mode, token_env |-> token_env, password_env |-> password_env,
                   trusted_proxy |-> [user_header |-> user_header,
                                      trusted_ips |-> trusted_ips]]]

Configs ==
    {Config("None", "", "", "", "", <<>>),
     Config("None", "ab", "T", "P", "", <<"10.0.0.1">>),
     Config("Token", "ab", "", "", "", <<>>),
     Config("Token", " ", "T", "", "", <<>>),
     Config("Token", "", " ", "P", "", <<>>),
     Config("Password", "ab", "T", "P", "", <<>>),
     Config("Password", "", "", " ", "", <<>>),
     Config("TrustedProxy", "", "", "", "x-user", <<"10.0.0.1", "bad">>),
     Config("TrustedProxy", "ab", "T", "P", " ", <<>>),
     Config("TrustedProxy", "", "", "", "X-User", <<"127.0.0.1", "10.0.0.2">>)}

ApiEnvs ==
    {EmptyMap,
     ("T" :> "ab") @@ ("P" :> " "),
     ("T" :> " ") @@ ("P" :> "ab")}

\* header maps, each with the credentials it was made of: the value after
\* "Bearer " in Authorization, the value of x-openfang-password, and the
\* identity headers as (name, value)
HeaderChoice(headers, bearer, password, identity) ==
    [headers |-> headers, bearer |-> bearer, password |-> password, identity |-> identity]

Bearer(c) == <<"authorization", "Bearer " \o c>>
PasswordHeader(c) == <<"x-openfang-password", c>>

HeaderChoices ==
    {HeaderChoice(<<>>, None, None, {})}
    \cup {HeaderChoice(<<Bearer(c)>>, Some(c), None, {}) : c \in {"ab", "ac", "a", "", "é"}}
    \cup {HeaderChoice(<<<<"authorization", "ab">>>>, None, None, {}),
          HeaderChoice(<<<<"authorization", "bearer ab">>>>, None, None, {})}
    \cup {HeaderChoice(<<PasswordHeader(c)>>, None, Some(c), {}) : c \in {"ab", "ac", "", "é"}}
    \cup {HeaderChoice(<<<<name, v>>>>, None, None, {<<name, v>>}) :
             name \in {"x-openfang-user", "x-user"}, v \in {"u", " "}}
    \cup {HeaderChoice(<<Bearer("ab"), PasswordHeader("ab"), <<"x-user", "u">>,
                         <<"x-openfang-user", "u">>>>,
                       Some("ab"), Some("ab"),
                       {<<"x-user", "u">>, <<"x-openfang-user", "u">>}),
          HeaderChoice(<<Bearer("ac"), PasswordHeader("ac"), <<"x-user", " ">>>>,
                       Some("ac"), Some("ac"), {<<"x-user", " ">>})}

\* query strings, each with the first value of its token and password parameters
QueryChoice(query, token, password) ==
    [query |-> query, token |-> token, password |-> password]

QueryChoices ==
    {QueryChoice(None, None, None),
     QueryChoice(Some("token=ab"), Some("ab"), None),
     QueryChoice(Some("token=ac&token=ab"), Some("ac"), None),
     QueryChoice(Some("x=1&token=ab&password=ac"), Some("ab"), Some("ac")),
     QueryChoice(Some("password=ab"), None, Some("ab")),
     QueryChoice(Some("token=&password="), Some(""), Some("")),
     QueryChoice(Some("tokens=ab&xpassword=ab"), None, None)}

Paths ==
    {"/", "/api/health", "/api/health/detail", "/api/status", "/api/version",
     "/api/agents", "/api/profiles", "/api/config", "/api/uploads/f", "/api/uploads/",
     "/api/uploads", "/api/agents/a", "/api/health/"}

RemoteChoices == {None, Some("127.0.0.1"), Some("::1"), Some("10.0.0.1"), Some("10.0.0.2")}

\* the path of the WebSocket route
WsPath == "/api/agents/a/ws"

NoExchange == [kind |-> "none"]

---------------------------------------------------------------------------
(* The API server: built once from the configuration and the environment,   *)
(* then given requests and WebSocket upgrades.                              *)

InitApi ==
    /\ file = MissingFile
    /\ last = NoCall("idle")
    /\ pre = file
    /\ procs = [p \in ProcIds |-> NotStarted]
    /\ config \in Configs
    /\ env \in ApiEnvs
    /\ start_env = env
    /\ auth_state = from_kernel_config(config, env)
    /\ exchange = NoExchange
    /\ WizardNotStarted

\* no request is being answered
GateIdle == exchange = NoExchange

Auth ==
    /\ GateIdle
    /\ \E path \in Paths, remote \in RemoteChoices, h \in HeaderChoices, q \in QueryChoices :
        LET request == [path |-> path, query |-> q.query, headers |-> h.headers,
                        remote |-> remote]
        IN /\ exchange' = [kind |-> "http", request |-> request,
                           bearer |-> h.bearer, password_header |-> h.password,
                           identity |-> h.identity,
                           token_param |-> q.token, password_param |-> q.password,
                           response |-> auth(auth_state, request)]
           /\ UNCHANGED <<config, start_env, auth_state, env, outsideApi>>

AuthorizeWsUpgrade ==
    /\ GateIdle
    /\ \E remote \in RemoteChoices \ {None}, h \in HeaderChoices, q \in QueryChoices :
        LET request == [path |-> WsPath, query |-> q.query, headers |-> h.headers,
                        remote |-> remote]
        IN /\ exchange' = [kind |-> "ws", request |-> request,
                           bearer |-> h.bearer, password_header |-> h.password,
                           identity |-> h.identity,
                           token_param |-> q.token, password_param |-> q.password,
                           response |-> authorize_ws_upgrade(auth_state, h.headers,
                                                             q.query, remote[1])]
           /\ UNCHANGED <<config, start_env, auth_state, env, outsideApi>>

\* ApiAuthState is built again whenever the environment changes
ChangeEnvRebuilds ==
    /\ GateIdle
    /\ \E e \in ApiEnvs :
        /\ e # env
        /\ env' = e
        /\ auth_state' = from_kernel_config(config, e)
        /\ UNCHANGED <<config, start_env, exchange, outsideApi>>

\* the environment changes while the server runs
ChangeEnv ==
    /\ GateIdle
    /\ \E e \in ApiEnvs :
        /\ e # env
        /\ env' = e
        /\ UNCHANGED <<config, start_env, auth_state, exchange, outsideApi>>

\* the answer is returned; the gate keeps nothing of the exchange
Respond ==
    /\ ~GateIdle
    /\ exchange' = NoExchange
    /\ UNCHANGED <<config, start_env, auth_state, env, outsideApi>>

NextApi ==
    \/ Auth
    \/ AuthorizeWsUpgrade
    \/ ChangeEnv
    \/ Respond

SpecApi == InitApi /\ [][NextApi]_vars

---------------------------------------------------------------------------
(* The secret comparison on its own: a candidate and an expected secret are *)
(* handed to safe_equal_secret.                                             *)

\* the strings handed to the comparison: the secrets and the credentials of
\* the model, and strings that differ from them in one byte or in length
CompareInputs == {"", "a", "b", "ab", "ac", "ba", "abc", "é", " "}

InitCompare ==
    /\ file = MissingFile
    /\ last = NoCall("idle")
    /\ pre = file
    /\ env = EmptyMap
    /\ procs = [p \in ProcIds |-> NotStarted]
    /\ config = "none"
    /\ start_env = "none"
    /\ auth_state = "none"
    /\ WizardNotStarted
    /\ \E input \in CompareInputs, expected \in CompareInputs :
          exchange = [kind |-> "compare", pc |-> "call", input |-> input,
                      expected |-> expected, steps |-> <<>>, result |-> FALSE]

SafeEqualSecret ==
    /\ exchange.pc = "call"
    /\ exchange' = [exchange EXCEPT
                        !.pc = "done",
                        !.steps = SafeEqualSteps(exchange.input, exchange.expected),
                        !.result = safe_equal_secret(exchange.input, exchange.expected)]
    /\ UNCHANGED <<config, start_env, auth_state, env, outsideApi>>

NextCompare == SafeEqualSecret

SpecCompare == InitCompare /\ [][NextCompare]_vars

---------------------------------------------------------------------------
(* Setup wizard of openfang-cli (crates/openfang-cli/src/tui/screens/       *)
(* wizard.rs): provider list, API key, gateway auth, model, config save.    *)
(* Indices are counted from 0 as in the code.                               *)

ProviderInfo(name, env_var, default_model, needs_key) ==
    [name |-> name, env_var |-> env_var, default_model |-> default_model,
     needs_key |-> needs_key]

\* two of the entries of the table: one that needs a key, one that does not
PROVIDERS ==
    <<ProviderInfo("openai", "OPENAI_API_KEY", "gpt-4o", TRUE),
      ProviderInfo("ollama", "OLLAMA_API_KEY", "llama3.2", FALSE)>>

\* the indices from i on whose variable is set (detected) or is not
RECURSIVE ProviderIndices(_, _, _)
ProviderIndices(e, detected, i) ==
    IF i >= Len(PROVIDERS) THEN <<>>
    ELSE (IF (PROVIDERS[i + 1].env_var \in DOMAIN e) = detected THEN <<i>> ELSE <<>>)
         \o ProviderIndices(e, detected, i + 1)

build_provider_order(e) == ProviderIndices(e, TRUE, 0) \o ProviderIndices(e, FALSE, 0)

\* WizardState::new
WizardNew(e) ==
    [step |-> "Provider",
     provider_list |-> Some(0),
     provider_order |-> build_provider_order(e),
     selected_provider |-> None,
     api_key_input |-> "",
     api_key_from_env |-> FALSE,
     api_setup_phase |-> "ProviderKey",
     gateway_auth_list |-> Some(0),
     gateway_auth_mode |-> "Token",
     gateway_auth_secret_input |-> "",
     gateway_auth_error |-> "",
     model_input |-> "",
     status_msg |-> "",
     created_config |-> None]

\* ListState::selected().unwrap_or(0)
SelectedOrZero(list) == IF list = None THEN 0 ELSE list[1]

selected_provider_info(w) ==
    IF w.selected_provider = None THEN None
    ELSE Some(PROVIDERS[w.selected_provider[1] + 1])

selected_gateway_auth_mode(w) ==
    CASE SelectedOrZero(w.gateway_auth_list) = 0 -> "Token"
      [] SelectedOrZero(w.gateway_auth_list) = 1 -> "Password"
      [] SelectedOrZero(w.gateway_auth_list) = 2 -> "None"
      [] OTHER -> "TrustedProxy"

gateway_auth_needs_secret(w) == selected_gateway_auth_mode(w) \in {"Token", "Password"}

\* String::pop
Pop(s) == IF s = "" THEN "" ELSE SubSeq(s, 1, Len(s) - 1)

TokenEnv == "OPENFANG_API_TOKEN"
PasswordEnv == "OPENFANG_API_PASSWORD"

\* the error of crate::dotenv when ~/.openfang/.env cannot be written
DotenvError == "Failed to write .env"

\* crate::dotenv::save_env_key: the key is set in the file, or the file is
\* left as it was and an error is returned
save_env_key(d, key, value, outcome) ==
    IF outcome = "ok" THEN [dotenv |-> MapInsert(d, key, value), result |-> Ok(None)]
    ELSE [dotenv |-> d, result |-> Err(DotenvError)]

\* crate::dotenv::remove_env_key
remove_env_key(d, key, outcome) ==
    IF outcome = "ok" THEN [dotenv |-> MapRemove(d, key), result |-> Ok(None)]
    ELSE [dotenv |-> d, result |-> Err(DotenvError)]

\* what one key event meets outside the wizard: the results of save_env_key,
\* of the remove_env_key calls, and of writing config.toml
Outcome(save, remove, remove_other, fs) ==
    [save |-> save, remove |-> remove, remove_other |-> remove_other, fs |-> fs]

\* the own variable is set to the trimmed secret and the other is removed,
\* whatever the secret is
PersistAcceptsBlankSecret(w, e, d, io) ==
    LET mode == selected_gateway_auth_mode(w)
        w1 == [w EXCEPT !.gateway_auth_mode = mode, !.gateway_auth_error = ""]
        secret == TrimStr(w.gateway_auth_secret_input)
        own == IF mode = "Token" THEN TokenEnv ELSE PasswordEnv
        other == IF mode = "Token" THEN PasswordEnv ELSE TokenEnv
    IN IF mode \in {"Token", "Password"}
       THEN [wizard |-> w1,
             env |-> MapRemove(MapInsert(e, own, secret), other),
             dotenv |-> MapRemove(MapInsert(d, own, secret), other),
             result |-> Ok(None)]
       ELSE [wizard |-> w1,
             env |-> MapRemove(MapRemove(e, TokenEnv), PasswordEnv),
             dotenv |-> MapRemove(MapRemove(d, TokenEnv), PasswordEnv),
             result |-> Ok(None)]

persist_gateway_auth_secret(w, e, d, io) ==
    LET mode == selected_gateway_auth_mode(w)
        w1 == [w EXCEPT !.gateway_auth_mode = mode, !.gateway_auth_error = ""]
        secret == TrimStr(w.gateway_auth_secret_input)
        own == IF mode = "Token" THEN TokenEnv ELSE PasswordEnv
        other == IF mode = "Token" THEN PasswordEnv ELSE TokenEnv
    IN IF mode \in {"Token", "Password"}
       THEN IF secret = ""
            THEN [wizard |-> w1, env |-> e, dotenv |-> d,
                  result |-> Err(IF mode = "Token" THEN "Enter a gateway token"
                                 ELSE "Enter a gateway password")]
            ELSE LET saved == save_env_key(d, own, secret, io.save)
                 IN IF ~saved.result.ok
                    THEN [wizard |-> w1, env |-> e, dotenv |-> d, result |-> saved.result]
                    ELSE [wizard |-> w1,
                          env |-> MapRemove(MapInsert(e, own, secret), other),
                          dotenv |-> remove_env_key(saved.dotenv, other, io.remove).dotenv,
                          result |-> Ok(None)]
       ELSE [wizard |-> w1,
             env |-> MapRemove(MapRemove(e, TokenEnv), PasswordEnv),
             dotenv |-> remove_env_key(remove_env_key(d, TokenEnv, io.remove).dotenv,
                                       PasswordEnv, io.remove_other).dotenv,
             result |-> Ok(None)]

\* key events: a key code, the character of a Char key, and whether the
\* CONTROL modifier is held
Key(code, ch, ctrl) == [code |-> code, ch |-> ch, ctrl |-> ctrl]

\* the result of a handler: the wizard, the world around it, WizardResult,
\* and the result of persist_gateway_auth_secret if the handler called it
Handled(w, e, d, cfg, result, persist) ==
    [wizard |-> w, env |-> e, dotenv |-> d, config |-> cfg, result |-> result,
     persist |-> persist]

handle_provider(w, e, d, cfg, key) ==
    LET n == Len(w.provider_order)
        i == SelectedOrZero(w.provider_list)
    IN CASE key.code = "Esc" -> Handled(w, e, d, cfg, "Cancelled", None)
         [] key.code = "Up" \/ (key.code = "Char" /\ key.ch = "k") ->
              Handled([w EXCEPT !.provider_list = Some(IF i = 0 THEN n - 1 ELSE i - 1)],
                      e, d, cfg, "Continue", None)
         [] key.code = "Down" \/ (key.code = "Char" /\ key.ch = "j") ->
              Handled([w EXCEPT !.provider_list = Some((i + 1) % n)],
                      e, d, cfg, "Continue", None)
         [] key.code = "Enter" ->
              IF w.provider_list = None \/ w.provider_list[1] >= n
                 \/ w.provider_order[SelectedOrZero(w.provider_list) + 1] >= Len(PROVIDERS)
              THEN Handled(w, e, d, cfg, "Continue", None)
              ELSE LET prov_idx == w.provider_order[w.provider_list[1] + 1]
                       p == PROVIDERS[prov_idx + 1]
                       w1 == [w EXCEPT !.selected_provider = Some(prov_idx)]
                   IN IF ~p.needs_key
                      THEN Handled([w1 EXCEPT !.api_key_from_env = FALSE,
                                              !.model_input = p.default_model,
                                              !.api_setup_phase = "GatewayAuth",
                                              !.step = "ApiKey"],
                                   e, d, cfg, "Continue", None)
                      ELSE IF p.env_var \in DOMAIN e
                      THEN Handled([w1 EXCEPT !.api_key_from_env = TRUE,
                                              !.model_input = p.default_model,
                                              !.api_setup_phase = "GatewayAuth",
                                              !.step = "ApiKey"],
                                   e, d, cfg, "Continue", None)
                      ELSE Handled([w1 EXCEPT !.api_key_from_env = FALSE,
                                              !.api_setup_phase = "ProviderKey",
                                              !.api_key_input = "",
                                              !.step = "ApiKey"],
                                   e, d, cfg, "Continue", None)
         [] OTHER -> Handled(w, e, d, cfg, "Continue", None)

\* the Model step follows whatever persist_gateway_auth_secret returned
GatewayAuthEnterAlwaysAdvances(w, e, d, cfg, io) ==
    LET r == persist_gateway_auth_secret(w, e, d, io)
    IN Handled([r.wizard EXCEPT !.gateway_auth_error = "", !.step = "Model"],
               r.env, r.dotenv, cfg, "Continue", Some(r.result))

\* KeyCode::Enter in the gateway-auth phase
GatewayAuthEnter(w, e, d, cfg, io) ==
    LET r == persist_gateway_auth_secret(w, e, d, io)
    IN IF r.result.ok
       THEN Handled([r.wizard EXCEPT !.gateway_auth_error = "", !.step = "Model"],
                    r.env, r.dotenv, cfg, "Continue", Some(r.result))
       ELSE Handled([r.wizard EXCEPT !.gateway_auth_error = r.result.err],
                    r.env, r.dotenv, cfg, "Continue", Some(r.result))

handle_api_key(w, e, d, cfg, key, io) ==
    IF w.api_setup_phase = "ProviderKey"
    THEN CASE key.code = "Esc" ->
                Handled([w EXCEPT !.step = "Provider"], e, d, cfg, "Continue", None)
           [] key.code = "Enter" ->
                IF w.api_key_input = "" THEN Handled(w, e, d, cfg, "Continue", None)
                ELSE IF selected_provider_info(w) = None
                THEN Handled([w EXCEPT !.api_setup_phase = "GatewayAuth"],
                             e, d, cfg, "Continue", None)
                ELSE LET p == selected_provider_info(w)[1]
                     IN Handled([w EXCEPT !.model_input = p.default_model,
                                          !.api_setup_phase = "GatewayAuth"],
                                MapInsert(e, p.env_var, w.api_key_input),
                                save_env_key(d, p.env_var, w.api_key_input, io.save).dotenv,
                                cfg, "Continue", None)
           [] key.code = "Char" ->
                Handled([w EXCEPT !.api_key_input = @ \o key.ch], e, d, cfg, "Continue", None)
           [] key.code = "Backspace" ->
                Handled([w EXCEPT !.api_key_input = Pop(@)], e, d, cfg, "Continue", None)
           [] OTHER -> Handled(w, e, d, cfg, "Continue", None)
    ELSE CASE key.code = "Esc" ->
                IF selected_provider_info(w) # None
                   /\ selected_provider_info(w)[1].needs_key /\ ~w.api_key_from_env
                THEN Handled([w EXCEPT !.api_setup_phase = "ProviderKey"],
                             e, d, cfg, "Continue", None)
                ELSE Handled([w EXCEPT !.step = "Provider"], e, d, cfg, "Continue", None)
           [] key.code = "Up" ->
                LET i == SelectedOrZero(w.gateway_auth_list)
                IN Handled([w EXCEPT !.gateway_auth_list = Some(IF i = 0 THEN 3 ELSE i - 1),
                                     !.gateway_auth_error = ""],
                           e, d, cfg, "Continue", None)
           [] key.code = "Down" ->
                LET i == SelectedOrZero(w.gateway_auth_list)
                IN Handled([w EXCEPT !.gateway_auth_list = Some((i + 1) % 4),
                                     !.gateway_auth_error = ""],
                           e, d, cfg, "Continue", None)
           [] key.code = "Enter" -> GatewayAuthEnter(w, e, d, cfg, io)
           [] key.code = "Char" ->
                IF gateway_auth_needs_secret(w)
                THEN Handled([w EXCEPT !.gateway_auth_secret_input = @ \o key.ch,
                                       !.gateway_auth_error = ""],
                             e, d, cfg, "Continue", None)
                ELSE Handled(w, e, d, cfg, "Continue", None)
           [] key.code = "Backspace" ->
                IF gateway_auth_needs_secret(w)
                THEN Handled([w EXCEPT !.gateway_auth_secret_input = Pop(@),
                                       !.gateway_auth_error = ""],
                             e, d, cfg, "Continue", None)
                ELSE Handled(w, e, d, cfg, "Continue", None)
           [] OTHER -> Handled(w, e, d, cfg, "Continue", None)

\* ~/.openfang/config.toml: not there, cut short by a failed write, or the
\* document save_config formats
NoConfig == [kind |-> "missing"]
PartialConfig == [kind |-> "partial"]

ConfigToml(api_auth_mode, trusted_proxy, provider, model, api_key_env) ==
    [kind |-> "toml",
     api_listen |-> "127.0.0.1:4200",
     api_auth |-> [mode |-> api_auth_mode, token_env |-> TokenEnv,
                   password_env |-> PasswordEnv, trusted_proxy |-> trusted_proxy],
     default_model |-> [provider |-> provider, model |-> model,
                        api_key_env |-> api_key_env]]

\* match self.gateway_auth_mode
ModeString(w) ==
    CASE w.gateway_auth_mode = "Token" -> "token"
      [] w.gateway_auth_mode = "Password" -> "password"
      [] w.gateway_auth_mode = "None" -> "none"
      [] w.gateway_auth_mode = "TrustedProxy" -> "trusted_proxy"

\* the dash of "Config saved" is U+2014 in the code
save_config(w, e, d, cfg, fs) ==
    IF selected_provider_info(w) = None
    THEN Handled([w EXCEPT !.status_msg = "No provider selected", !.step = "Provider"],
                 e, d, cfg, "Continue", None)
    ELSE IF fs = "no_home"
    THEN Handled([w EXCEPT !.status_msg = "Could not determine home directory",
                           !.step = "Done"],
                 e, d, cfg, "Continue", None)
    ELSE LET p == selected_provider_info(w)[1]
             model == IF w.model_input = "" THEN p.default_model ELSE w.model_input
             trusted_proxy_section ==
                 IF w.gateway_auth_mode = "TrustedProxy"
                 THEN Some([user_header |-> "x-openfang-user", trusted_ips |-> <<>>])
                 ELSE None
         IN CASE fs = "ok" ->
                   Handled([w EXCEPT !.status_msg = "Config saved - " \o p.name \o " / " \o model,
                                     !.created_config = Some("~/.openfang/config.toml"),
                                     !.step = "Done"],
                           e, d,
                           ConfigToml(ModeString(w), trusted_proxy_section, p.name, model,
                                      p.env_var),
                           "Continue", None)
              [] fs = "open_err" ->
                   Handled([w EXCEPT !.status_msg = "Failed to save config: open",
                                     !.step = "Done"],
                           e, d, cfg, "Continue", None)
              [] fs = "write_err" ->
                   Handled([w EXCEPT !.status_msg = "Failed to save config: write",
                                     !.step = "Done"],
                           e, d, PartialConfig, "Continue", None)

handle_model(w, e, d, cfg, key, io) ==
    CASE key.code = "Esc" ->
           Handled([w EXCEPT !.step = "ApiKey", !.api_setup_phase = "GatewayAuth"],
                   e, d, cfg, "Continue", None)
      [] key.code = "Enter" -> save_config([w EXCEPT !.step = "Saving"], e, d, cfg, io.fs)
      [] key.code = "Char" ->
           Handled([w EXCEPT !.model_input = @ \o key.ch], e, d, cfg, "Continue", None)
      [] key.code = "Backspace" ->
           Handled([w EXCEPT !.model_input = Pop(@)], e, d, cfg, "Continue", None)
      [] OTHER -> Handled(w, e, d, cfg, "Continue", None)

handle_key(w, e, d, cfg, key, io) ==
    IF key.code = "Char" /\ key.ch = "c" /\ key.ctrl
    THEN Handled(w, e, d, cfg, "Cancelled", None)
    ELSE CASE w.step = "Provider" -> handle_provider(w, e, d, cfg, key)
           [] w.step = "ApiKey" -> handle_api_key(w, e, d, cfg, key, io)
           [] w.step = "Model" -> handle_model(w, e, d, cfg, key, io)
           [] w.step \in {"Saving", "Done"} -> Handled(w, e, d, cfg, "Continue", None)

---------------------------------------------------------------------------
(* The wizard at the terminal: one key event at a time                     *)

\* the characters typed into the inputs (a blank too where the gateway
\* secret is typed), and the two that move the selection of the provider list
TypedChars(w) ==
    IF w.step = "ApiKey" /\ w.api_setup_phase = "GatewayAuth" THEN {"a", " "} ELSE {"a"}
ListChars == {"j", "k"}

Keys ==
    {Key(code, "", FALSE) : code \in {"Esc", "Up", "Down", "Enter", "Backspace", "Tab"}}
    \cup {Key("Char", c, FALSE) : c \in {"a", " "} \cup ListChars}
    \cup {Key("Char", "c", TRUE)}

\* the results of remove_env_key are dropped by the wizard (let _ =), so
\* one outcome of it is followed
Outcomes ==
    {Outcome(save, "ok", "ok", fs) :
        save \in {"ok", "err"}, fs \in {"ok", "no_home", "open_err", "write_err"}}

NoFault == Outcome("ok", "ok", "ok", "ok")

\* only Enter reaches the file system
OutcomesOf(key) == IF key.code = "Enter" THEN Outcomes ELSE {NoFault}

\* the environment the wizard is started in
WizardEnvs ==
    {("OPENAI_API_KEY" :> "k"),
     ("OLLAMA_API_KEY" :> "k") @@ (TokenEnv :> "old") @@ (PasswordEnv :> "old")}

\* the input a typed character is appended to, if there is one
TypedInto(w) ==
    CASE w.step = "ApiKey" /\ w.api_setup_phase = "ProviderKey" -> Some(w.api_key_input)
      [] w.step = "ApiKey" /\ w.api_setup_phase = "GatewayAuth"
            /\ gateway_auth_needs_secret(w) -> Some(w.gateway_auth_secret_input)
      [] w.step = "Model" -> Some(w.model_input)
      [] OTHER -> None

\* whether s starts with prefix
StartsWith(s, prefix) ==
    Len(s) >= Len(prefix) /\ SubSeq(s, 1, Len(prefix)) = prefix

\* the editing keys offered: up to MaxInput characters are typed into an
\* empty provider key or gateway secret, or after the default model name;
\* up to MaxErase characters of the default model name are erased, and what
\* was typed after it
EditWithinBounds(w, key) ==
    LET default == IF w.step = "Model" /\ w.selected_provider # None
                   THEN selected_provider_info(w)[1].default_model
                   ELSE ""
    IN /\ (key.code = "Char" /\ ~key.ctrl /\ TypedInto(w) # None)
          => /\ key.ch \in TypedChars(w)
             /\ StartsWith(TypedInto(w)[1], default)
             /\ Len(TypedInto(w)[1]) < Len(default) + MaxInput
       /\ (key.code = "Backspace" /\ w.step = "Model")
          => \/ /\ StartsWith(w.model_input, default)
                /\ w.model_input # default
             \/ /\ StartsWith(default, w.model_input)
                /\ Len(w.model_input) + MaxErase > Len(default)

\* what the last key event found: the step and phase it was handled in,
\* whether the selected gateway mode needed a secret and whether the secret
\* typed so far was blank, and whether a provider was selected
Before(w) ==
    [step |-> w.step,
     phase |-> w.api_setup_phase,
     needs_secret |-> gateway_auth_needs_secret(w),
     blank_secret |-> TrimStr(w.gateway_auth_secret_input) = "",
     provider_selected |-> w.selected_provider # None]

\* no key event was handled yet; persisted is the mode and the trimmed
\* secret of the last persist_gateway_auth_secret that returned Ok, if any,
\* and whether the one that returned Ok before it was for another mode
NoEvent(persisted) == [kind |-> "idle", persisted |-> persisted]

InitWizard ==
    /\ file = MissingFile
    /\ last = NoCall("idle")
    /\ pre = file
    /\ procs = [p \in ProcIds |-> NotStarted]
    /\ start_env = "none"
    /\ auth_state = "none"
    /\ exchange = "none"
    /\ env \in WizardEnvs
    /\ dotenv = [k \in DOMAIN env \cap {TokenEnv, PasswordEnv} |-> env[k]]
    /\ config = NoConfig
    /\ wizard = WizardNew(env)
    /\ event = NoEvent(None)

\* one key event handled by handle_key; event records what it found and did
HandleKey ==
    /\ \E key \in Keys :
        /\ \E io \in OutcomesOf(key) :
            LET r == handle_key(wizard, env, dotenv, config, key, io)
            IN /\ EditWithinBounds(wizard, key)
               /\ wizard' = r.wizard
               /\ env' = r.env
               /\ dotenv' = r.dotenv
               /\ config' = r.config
               /\ event' = [kind |-> "key", enter |-> key.code = "Enter",
                            before |-> Before(wizard),
                            unchanged |-> /\ r.wizard = wizard
                                          /\ r.env = env
                                          /\ r.dotenv = dotenv
                                          /\ r.config = config,
                            config_written |-> r.config # config,
                            result |-> r.result, persist |-> r.persist,
                            persisted |->
                                IF r.persist # None /\ r.persist[1].ok
                                THEN Some([mode |-> r.wizard.gateway_auth_mode,
                                           secret |->
                                               TrimStr(wizard.gateway_auth_secret_input),
                                           mode_changed |->
                                               /\ event.persisted # None
                                               /\ event.persisted[1].mode
                                                      # r.wizard.gateway_auth_mode])
                                ELSE event.persisted]
    /\ UNCHANGED outsideWizard

NextWizard == HandleKey

SpecWizard == InitWizard /\ [][NextWizard]_vars

---------------------------------------------------------------------------
(* Vocabulary of the properties, stated on the document and not through  *)
(* the resolver's own sort key and loop                                   *)

Store == load_store(file)
PreStore == load_store(pre)

Normalized(s) == ToLowercase(Trim(s))

Resolved == last.op = "resolve"
ResolvedSome == Resolved /\ last.ret.val # None
ResolvedId == last.ret.val[1].profile_id

Candidates(st, p) == {id \in DOMAIN st.profiles : st.profiles[id].provider = p}

NonBlankValue(v) == \E i \in 1..Len(v) : v[i] # " "

EnvSet(name) == name \in DOMAIN env /\ NonBlankValue(env[name])

CooldownAfter(st, id, t) ==
    /\ id \in DOMAIN st.usage_stats
    /\ Len(st.usage_stats[id].cooldown_until_ms) = 1
    /\ st.usage_stats[id].cooldown_until_ms[1] > t

Usable(st, id, t) ==
    /\ st.profiles[id].env_var # <<>>
    /\ ~CooldownAfter(st, id, t)
    /\ EnvSet(st.profiles[id].env_var)

IsLastGood(st, p, id) == p \in DOMAIN st.last_good /\ st.last_good[p] = id

Listed(st, p, id) ==
    p \in DOMAIN st.order /\ \E i \in 1..Len(st.order[p]) : st.order[p][i] = id

FirstIndex(st, p, id) ==
    CHOOSE i \in 1..Len(st.order[p]) :
        /\ st.order[p][i] = id
        /\ \A j \in 1..(i - 1) : st.order[p][j] # id

\* a is strictly earlier than b by position in order[p]; unlisted is infinity
OrderEarlier(st, p, a, b) ==
    /\ Listed(st, p, a)
    /\ Listed(st, p, b) => FirstIndex(st, p, a) < FirstIndex(st, p, b)

OrderEqual(st, p, a, b) == ~OrderEarlier(st, p, a, b) /\ ~OrderEarlier(st, p, b, a)

\* a is strictly earlier than b by (order position, priority)
RankedEarlier(st, p, a, b) ==
    \/ OrderEarlier(st, p, a, b)
    \/ OrderEqual(st, p, a, b) /\ st.profiles[a].priority < st.profiles[b].priority

\* a is strictly earlier than b by (last_good first, order position, priority)
StrictlyBefore(st, p, a, b) ==
    \/ IsLastGood(st, p, a) /\ ~IsLastGood(st, p, b)
    \/ (IsLastGood(st, p, a) <=> IsLastGood(st, p, b)) /\ RankedEarlier(st, p, a, b)

---------------------------------------------------------------------------
(* C1: resolve returns a usable profile of the provider that no usable     *)
(* profile of the provider precedes in the order (last_good first, then    *)
(* position in the order list with unlisted last, then priority), with the *)
(* env_var of that profile; it returns nothing only when the provider has  *)
(* no usable profile.                                                      *)
C1_ResolveFirstUsableInRank ==
    Resolved =>
        LET p == Normalized(last.provider)
            cands == Candidates(Store, p)
        IN IF last.ret.val = None
           THEN \A c \in cands : ~Usable(Store, c, last.now)
           ELSE /\ ResolvedId \in cands
                /\ Usable(Store, ResolvedId, last.now)
                /\ last.ret.val[1].env_var = Store.profiles[ResolvedId].env_var
                /\ \A c \in cands :
                      Usable(Store, c, last.now) => ~StrictlyBefore(Store, p, c, ResolvedId)

\* a usable last_good profile is returned although another usable profile is
\* listed in the order list and has a lower priority value
C1_Witness ==
    /\ ResolvedSome
    /\ IsLastGood(Store, Normalized(last.provider), ResolvedId)
    /\ \E c \in Candidates(Store, Normalized(last.provider)) :
          /\ c # ResolvedId
          /\ Usable(Store, c, last.now)
          /\ Listed(Store, Normalized(last.provider), c)
          /\ ~Listed(Store, Normalized(last.provider), ResolvedId)
          /\ Store.profiles[c].priority < Store.profiles[ResolvedId].priority

---------------------------------------------------------------------------
(* C2: resolve never returns a profile whose cooldown_until is strictly     *)
(* greater than the time it read, last_good or not; a profile whose         *)
(* cooldown_until is at or before that time is not skipped for it: if it is *)
(* otherwise usable, resolve returns it or a profile that it does not       *)
(* precede.                                                                 *)
C2_CooldownExcludesUntilExpired ==
    Resolved =>
        LET p == Normalized(last.provider)
            st == Store
        IN /\ last.ret.val # None => ~CooldownAfter(st, ResolvedId, last.now)
           /\ \A c \in Candidates(st, p) :
                 ( /\ c \in DOMAIN st.usage_stats
                   /\ Len(st.usage_stats[c].cooldown_until_ms) = 1
                   /\ st.usage_stats[c].cooldown_until_ms[1] <= last.now
                   /\ st.profiles[c].env_var # <<>>
                   /\ EnvSet(st.profiles[c].env_var) )
                 => /\ last.ret.val # None
                    /\ ~StrictlyBefore(st, p, c, ResolvedId)

\* the last_good profile is returned at the very time its cooldown ends
C2_Witness ==
    /\ ResolvedSome
    /\ IsLastGood(Store, Normalized(last.provider), ResolvedId)
    /\ ResolvedId \in DOMAIN Store.usage_stats
    /\ Store.usage_stats[ResolvedId].cooldown_until_ms = Some(last.now)
    /\ last.now > 0

---------------------------------------------------------------------------
(* C4: a returned env_var is non-empty and names a variable of the           *)
(* environment whose value has a non-whitespace character; when every        *)
(* profile of the provider has an empty env_var, an unset or blank variable, *)
(* or a cooldown in the future, resolve returns nothing.                     *)
C4_ResolvedEnvVarIsSet ==
    Resolved =>
        LET p == Normalized(last.provider)
            st == Store
        IN /\ last.ret.val # None =>
                 /\ last.ret.val[1].env_var # <<>>
                 /\ last.ret.val[1].env_var \in DOMAIN env
                 /\ \E i \in 1..Len(env[last.ret.val[1].env_var]) :
                        env[last.ret.val[1].env_var][i] # " "
           /\ (\A c \in Candidates(st, p) :
                   \/ st.profiles[c].env_var = <<>>
                   \/ st.profiles[c].env_var \notin DOMAIN env
                   \/ \A i \in 1..Len(env[st.profiles[c].env_var]) :
                          env[st.profiles[c].env_var][i] = " "
                   \/ CooldownAfter(st, c, last.now))
              => last.ret.val = None

\* nothing is returned: one profile names a blank variable, another is cooling down
C4_Witness ==
    /\ Resolved
    /\ last.ret.val = None
    /\ \E c \in Candidates(Store, Normalized(last.provider)) :
          /\ Store.profiles[c].env_var \in DOMAIN env
          /\ env[Store.profiles[c].env_var] = <<" ">>
    /\ \E c \in Candidates(Store, Normalized(last.provider)) :
          /\ EnvSet(Store.profiles[c].env_var)
          /\ CooldownAfter(Store, c, last.now)

---------------------------------------------------------------------------
(* C6: whatever last_good, order and usage_stats refer to, a returned        *)
(* profile id is a key of profiles whose provider is the normalized provider *)
(* asked for, and the result is one the same document gives once every       *)
(* reference to a missing profile or to another provider's profile is        *)
(* deleted from it.                                                          *)
WithoutDanglingReferences(st) ==
    [st EXCEPT
       !.last_good = [q \in {x \in DOMAIN st.last_good :
                               st.last_good[x] \in Candidates(st, x)} |-> st.last_good[q]],
       !.order = [q \in DOMAIN st.order |->
                     SelectSeq(st.order[q], LAMBDA id : id \in Candidates(st, q))],
       !.usage_stats = [id \in (DOMAIN st.usage_stats) \cap (DOMAIN st.profiles) |->
                           st.usage_stats[id]]]

C6_ResolveToleratesDanglingReferences ==
    Resolved =>
        LET p == Normalized(last.provider)
            st == Store
        IN /\ last.ret.val # None =>
                 /\ ResolvedId \in DOMAIN st.profiles
                 /\ st.profiles[ResolvedId].provider = p
           /\ \E it \in IterOrders(Candidates(st, p)) :
                 last.ret.val = resolve_env_var_for_provider(
                     DocFile(WithoutDanglingReferences(st)), env, last.now, last.provider, it)

\* a profile is returned from a document whose last_good names another provider's
\* profile and whose order list and usage stats name a profile that does not exist
C6_Witness ==
    /\ ResolvedSome
    /\ Normalized(last.provider) \in DOMAIN Store.last_good
    /\ Store.last_good[Normalized(last.provider)] \in DOMAIN Store.profiles
    /\ Store.last_good[Normalized(last.provider)]
          \notin Candidates(Store, Normalized(last.provider))
    /\ \E q \in DOMAIN Store.order : \E i \in 1..Len(Store.order[q]) :
          Store.order[q][i] \notin DOMAIN Store.profiles
    /\ \E id \in DOMAIN Store.usage_stats : id \notin DOMAIN Store.profiles

---------------------------------------------------------------------------
(* Calls that completed *)

Upserted == last.op = "upsert" /\ last.ret.ok
Touched == last.op = "touch" /\ last.ret.ok
RemoveCalled == last.op = "remove"
Removed == last.op = "remove" /\ last.ret.ok /\ last.ret.val = TRUE

CallProvider == Normalized(last.provider)
CallProfileId == FormatProfileId(Normalized(last.provider), Normalized(last.profile_name))

\* what a resolve of the called provider returns now, reading time t and
\* iterating the map in the order it
ResolveNow(t, it) == resolve_env_var_for_provider(file, env, t, last.provider, it)

ResolvesTo(id, t) ==
    \A it \in IterOrders(Candidates(Store, CallProvider)) :
        ResolveNow(t, it) = Some([profile_id |-> id, env_var |-> Store.profiles[id].env_var])

MinPriority(st, p) ==
    CHOOSE n \in {st.profiles[c].priority : c \in Candidates(st, p)} :
        \A c \in Candidates(st, p) : n <= st.profiles[c].priority

---------------------------------------------------------------------------
(* C3 as stated: after a successful upsert the profile has the minimum      *)
(* priority of the provider's profiles (100 if it had none), is last_good,  *)
(* and a resolve right after it, with its env_var set, returns it.          *)
C3_UpsertThenResolveReturnsIt ==
    Upserted =>
        /\ Store.profiles[last.ret.val].priority =
              (IF Candidates(PreStore, CallProvider) = {} THEN 100
               ELSE MinPriority(PreStore, CallProvider))
        /\ IsLastGood(Store, CallProvider, last.ret.val)
        /\ EnvSet(Store.profiles[last.ret.val].env_var) =>
              \A t \in 0..MaxTime : ResolvesTo(last.ret.val, t)

(* C3, amended: ... and a resolve right after it, with its env_var set,     *)
(* returns it unless the profile's usage stats carry a cooldown_until later *)
(* than the time of that resolve.                                           *)
C3_UpsertThenResolveUnlessCooldown ==
    Upserted =>
        /\ Store.profiles[last.ret.val].priority =
              (IF Candidates(PreStore, CallProvider) = {} THEN 100
               ELSE MinPriority(PreStore, CallProvider))
        /\ Store.profiles[last.ret.val].priority = MinPriority(Store, CallProvider)
        /\ IsLastGood(Store, CallProvider, last.ret.val)
        /\ EnvSet(Store.profiles[last.ret.val].env_var) =>
              \A t \in 0..MaxTime :
                  ~CooldownAfter(Store, last.ret.val, t) => ResolvesTo(last.ret.val, t)

\* a new profile is added to a provider whose profiles have priorities 50 and
\* 100, another of them is usable, and the new one's variable is set
C3_Witness ==
    /\ Upserted
    /\ last.ret.val \notin DOMAIN PreStore.profiles
    /\ Store.profiles[last.ret.val].priority = 50
    /\ \E c \in Candidates(PreStore, CallProvider) :
          PreStore.profiles[c].priority = 100 /\ Usable(Store, c, 0)
    /\ EnvSet(Store.profiles[last.ret.val].env_var)

---------------------------------------------------------------------------
(* C5: every profile id that appears in order, last_good or usage_stats is  *)
(* a key of profiles (checked on the program started on an empty store).    *)
C5_ReferencesNameProfiles ==
    /\ \A q \in DOMAIN Store.last_good : Store.last_good[q] \in DOMAIN Store.profiles
    /\ \A q \in DOMAIN Store.order : \A i \in 1..Len(Store.order[q]) :
          Store.order[q][i] \in DOMAIN Store.profiles
    /\ \A id \in DOMAIN Store.usage_stats : id \in DOMAIN Store.profiles

---------------------------------------------------------------------------
(* C7: after touch_last_good(provider, profile_id) with profile_id the id   *)
(* of a profile of that provider, a resolve of the provider returns that    *)
(* profile whenever it is usable, whatever the order list and the other     *)
(* profiles' priorities are.                                                *)
C7_TouchPinsProfile ==
    ( /\ Touched
      /\ last.profile_id \in Candidates(Store, CallProvider) )
    => \A t \in 0..MaxTime :
           Usable(Store, last.profile_id, t) => ResolvesTo(last.profile_id, t)

\* the touched profile is usable while another usable profile is earlier in
\* the order list and has a lower priority value
C7_Witness ==
    /\ Touched
    /\ last.profile_id \in Candidates(Store, CallProvider)
    /\ \E t \in 0..MaxTime :
          /\ Usable(Store, last.profile_id, t)
          /\ \E c \in Candidates(Store, CallProvider) :
                /\ Usable(Store, c, t)
                /\ OrderEarlier(Store, CallProvider, c, last.profile_id)
                /\ Store.profiles[c].priority < Store.profiles[last.profile_id].priority

---------------------------------------------------------------------------
(* C8: a remove of the profile that last_good[provider] names leaves        *)
(* last_good without an entry for the provider, and a resolve of the        *)
(* provider then returns a usable remaining profile that no usable          *)
(* remaining profile precedes by (order position, priority), or nothing if  *)
(* no remaining profile is usable.                                          *)
C8_RemoveLastGoodFallsThrough ==
    ( /\ Removed
      /\ IsLastGood(PreStore, CallProvider, CallProfileId) )
    => /\ CallProvider \notin DOMAIN Store.last_good
       /\ \A t \in 0..MaxTime : \A it \in IterOrders(Candidates(Store, CallProvider)) :
             LET r == ResolveNow(t, it)
                 rest == Candidates(Store, CallProvider)
             IN IF \A c \in rest : ~Usable(Store, c, t)
                THEN r = None
                ELSE /\ r # None
                     /\ r[1].profile_id \in rest
                     /\ Usable(Store, r[1].profile_id, t)
                     /\ \A c \in rest :
                           Usable(Store, c, t)
                           => ~RankedEarlier(Store, CallProvider, c, r[1].profile_id)

\* the last_good profile is removed and two usable profiles remain, one ranked
\* before the other
C8_Witness ==
    /\ Removed
    /\ IsLastGood(PreStore, CallProvider, CallProfileId)
    /\ \E a, b \in Candidates(Store, CallProvider) : \E t \in 0..MaxTime :
          /\ Usable(Store, a, t)
          /\ Usable(Store, b, t)
          /\ RankedEarlier(Store, CallProvider, a, b)

---------------------------------------------------------------------------
(* C9: a remove that returns true leaves the profile id out of profiles,    *)
(* out of order[provider] (an order entry that becomes empty is dropped),   *)
(* out of usage_stats, and out of last_good[provider] if that named it; a   *)
(* last_good[provider] naming another profile, the other profiles, their    *)
(* usage stats, the rest of the provider's order list and the entries of    *)
(* the other providers are as before, and the provider has one profile less.*)
C9_RemoveDeletesProfileAndItsReferences ==
    Removed =>
        LET p == CallProvider
            id == CallProfileId
            st == Store
            old == PreStore
        IN /\ DOMAIN st.profiles = (DOMAIN old.profiles) \ {id}
           /\ \A k \in DOMAIN st.profiles : st.profiles[k] = old.profiles[k]
           /\ DOMAIN st.usage_stats = (DOMAIN old.usage_stats) \ {id}
           /\ \A k \in DOMAIN st.usage_stats : st.usage_stats[k] = old.usage_stats[k]
           /\ ~IsLastGood(st, p, id)
           /\ \A q \in DOMAIN old.last_good :
                 (q # p \/ old.last_good[q] # id)
                 => q \in DOMAIN st.last_good /\ st.last_good[q] = old.last_good[q]
           /\ DOMAIN st.last_good \subseteq DOMAIN old.last_good
           /\ ~Listed(st, p, id)
           /\ p \in DOMAIN st.order => st.order[p] # <<>>
           /\ \A q \in DOMAIN old.order :
                 IF q # p
                 THEN q \in DOMAIN st.order /\ st.order[q] = old.order[q]
                 ELSE LET kept == SelectSeq(old.order[p], LAMBDA x : x # id)
                      IN IF kept = <<>> THEN p \notin DOMAIN st.order
                         ELSE p \in DOMAIN st.order /\ st.order[p] = kept
           /\ DOMAIN st.order \subseteq DOMAIN old.order
           /\ st.version = old.version
           /\ Cardinality(Candidates(st, p)) = Cardinality(Candidates(old, p)) - 1

\* the removed profile was listed in the provider's order list beside another
\* id and had usage stats, last_good of the provider names another profile,
\* and another provider has entries of its own
C9_Witness ==
    /\ Removed
    /\ Listed(PreStore, CallProvider, CallProfileId)
    /\ CallProvider \in DOMAIN Store.order
    /\ CallProfileId \in DOMAIN PreStore.usage_stats
    /\ CallProvider \in DOMAIN Store.last_good
    /\ \E q \in DOMAIN Store.order : q # CallProvider
    /\ \E q \in DOMAIN Store.last_good : q # CallProvider
    /\ \E k \in DOMAIN Store.profiles : Store.profiles[k].provider # CallProvider

---------------------------------------------------------------------------
(* C10: a remove of a (provider, profile_name) that is not in the store     *)
(* returns false and writes nothing: the file is as it was.                 *)
C10_RemoveOfAbsentProfileWritesNothing ==
    ( /\ RemoveCalled
      /\ CallProfileId \notin DOMAIN PreStore.profiles )
    => /\ last.ret = Ok(FALSE)
       /\ ~last.wrote
       /\ file = pre

\* the named profile is absent while the provider has other profiles
C10_Witness ==
    /\ RemoveCalled
    /\ NonBlankValue(last.provider)
    /\ NonBlankValue(last.profile_name)
    /\ CallProfileId \notin DOMAIN PreStore.profiles
    /\ Candidates(PreStore, CallProvider) # {}
    /\ last.ret = Ok(FALSE)

---------------------------------------------------------------------------
UpsertCalled == last.op = "upsert"

\* s is empty after trimming
BlankArg(s) == \A i \in 1..Len(s) : s[i] = " "

(* C11: an upsert whose provider, profile name or env_var is empty after    *)
(* trimming returns an error and no profile id, and the persisted store is  *)
(* as it was.                                                               *)
C11_UpsertRejectsEmptyArguments ==
    ( /\ UpsertCalled
      /\ BlankArg(last.provider) \/ BlankArg(last.profile_name) \/ BlankArg(last.env_var) )
    => /\ ~last.ret.ok
       /\ last.ret.err # ""
       /\ last.ret.val = None
       /\ ~last.wrote
       /\ file = pre

\* only env_var is empty, and the store holds profiles of the provider
C11_Witness ==
    /\ UpsertCalled
    /\ ~BlankArg(last.provider)
    /\ ~BlankArg(last.profile_name)
    /\ BlankArg(last.env_var)
    /\ Candidates(PreStore, CallProvider) # {}
    /\ ~last.ret.ok

---------------------------------------------------------------------------
(* C12: a remove whose provider or profile name is empty after trimming is  *)
(* an error outcome with a descriptive message, and the store is as it was. *)
C12_RemoveRejectsEmptyArguments ==
    ( /\ RemoveCalled
      /\ BlankArg(last.provider) \/ BlankArg(last.profile_name) )
    => /\ ~last.ret.ok
       /\ last.ret.err # ""
       /\ file = pre

---------------------------------------------------------------------------
\* the two cases of the letters that occur in providers and profile names
CasePairs == {<<"o", "O">>, <<"g", "G">>, <<"d", "D">>, <<"b", "B">>}

SameLetter(a, b) == a = b \/ <<a, b>> \in CasePairs \/ <<b, a>> \in CasePairs

Letters == {pr[1] : pr \in CasePairs} \cup {pr[2] : pr \in CasePairs}

Padding == {<<>>, <<" ">>}

\* the strings that differ from s only in letter case and surrounding whitespace
Spellings(s) ==
    {before \o body \o after :
        before \in Padding, after \in Padding,
        body \in {b \in [1..Len(s) -> Letters] : \A i \in 1..Len(s) : SameLetter(b[i], s[i])}}

(* C13: a successful upsert returns "<provider>:<profile_name>" with both   *)
(* parts trimmed and lower-cased; removes, upserts, counts and resolves     *)
(* given any other spelling (letter case, surrounding whitespace) of the    *)
(* provider and profile name do what they do with the spelling of the call; *)
(* and an upsert of a profile that existed keeps the set of profile ids and *)
(* the provider's count and stores the new env_var.                         *)
C13_IdentityIsNormalizedPair ==
    Upserted =>
        LET p == Normalized(last.provider)
            n == Normalized(last.profile_name)
            id == p \o <<":">> \o n
            removal == remove_profile(file, last.provider, last.profile_name, "ok")
            again == upsert_env_profile(file, last.provider, last.profile_name,
                                        last.env_var, last.kind, "ok")
        IN /\ last.ret.val = id
           /\ id \in DOMAIN Store.profiles
           /\ Store.profiles[id].provider = p
           /\ Store.profiles[id].env_var = Trim(last.env_var)
           /\ removal.ret = Ok(TRUE)
           /\ id \notin DOMAIN load_store(removal.file).profiles
           /\ again.ret = Ok(id)
           /\ \A p2 \in Spellings(p) :
                 /\ profile_count_for_provider(file, p2)
                       = Cardinality(Candidates(Store, p))
                 /\ \A t \in 0..MaxTime : \A it \in IterOrders(Candidates(Store, p)) :
                       resolve_env_var_for_provider(file, env, t, p2, it) = ResolveNow(t, it)
                 /\ \A n2 \in Spellings(n) :
                       /\ remove_profile(file, p2, n2, "ok") = removal
                       /\ upsert_env_profile(file, p2, n2, last.env_var, last.kind, "ok")
                             = again
           /\ id \in DOMAIN PreStore.profiles
              => /\ DOMAIN Store.profiles = DOMAIN PreStore.profiles
                 /\ Cardinality(Candidates(Store, p)) = Cardinality(Candidates(PreStore, p))

\* the call spells provider and profile name with capitals and whitespace,
\* the profile existed with another env_var, and the provider has two profiles
C13_Witness ==
    /\ Upserted
    /\ last.provider # CallProvider
    /\ last.profile_name # Normalized(last.profile_name)
    /\ last.ret.val \in DOMAIN PreStore.profiles
    /\ PreStore.profiles[last.ret.val].env_var # Store.profiles[last.ret.val].env_var
    /\ Cardinality(Candidates(Store, CallProvider)) = 2

---------------------------------------------------------------------------
\* the call started on a file that is missing, unreadable or not a document
StartedWithoutDocument == last.op # "idle" /\ pre.kind # "doc"

\* the messages of save_store's errors
PersistErrors == {"Failed to create auth store dir", "Write auth store"}

EmptyDocument ==
    [version |-> 1, profiles |-> <<>>, order |-> <<>>, last_good |-> <<>>,
     usage_stats |-> <<>>]

(* C14: a call that starts on a missing, unreadable or unparsable file      *)
(* works on the empty default document (version 1, no profiles, order,      *)
(* last_good, usage_stats): resolve returns nothing, remove returns false,  *)
(* and upsert and touch_last_good fail only on empty arguments or on a      *)
(* persist error and otherwise save the empty document with their change.   *)
C14_LoadNeverFails ==
    StartedWithoutDocument =>
        /\ PreStore = EmptyDocument
        /\ Resolved => last.ret = Ok(None)
        /\ RemoveCalled => last.ret = Ok(FALSE) /\ file = pre
        /\ UpsertCalled =>
              IF BlankArg(last.provider) \/ BlankArg(last.profile_name)
                    \/ BlankArg(last.env_var)
              THEN ~last.ret.ok
              ELSE IF last.ret.ok
                   THEN /\ file.kind = "doc"
                        /\ DOMAIN Store.profiles = {CallProfileId}
                        /\ Store.profiles[CallProfileId].priority = 100
                        /\ Store.profiles[CallProfileId].env_var = Trim(last.env_var)
                        /\ Store.last_good = (CallProvider :> CallProfileId)
                        /\ Store.order = <<>> /\ Store.usage_stats = <<>>
                        /\ Store.version = 1
                   ELSE last.ret.err \in PersistErrors
        /\ last.op = "touch" =>
              IF BlankArg(last.provider) \/ BlankArg(last.profile_id)
              THEN last.ret.ok /\ file = pre
              ELSE IF last.ret.ok
                   THEN /\ file.kind = "doc"
                        /\ Store = [EmptyDocument EXCEPT
                                      !.last_good = (CallProvider :> Trim(last.profile_id))]
                   ELSE last.ret.err \in PersistErrors

\* an upsert succeeds on a file that a failed write left unparsable
C14_Witness ==
    /\ StartedWithoutDocument
    /\ pre.kind = "corrupt"
    /\ Upserted

---------------------------------------------------------------------------
\* the mutating call returned a persist error
PersistFailed ==
    /\ last.op \in {"upsert", "remove", "touch"}
    /\ ~last.ret.ok
    /\ last.ret.err \in PersistErrors

\* the document the call would have saved
IntendedStore ==
    CASE last.op = "upsert" ->
            load_store(upsert_env_profile(pre, last.provider, last.profile_name,
                                          last.env_var, last.kind, "ok").file)
      [] last.op = "remove" ->
            load_store(remove_profile(pre, last.provider, last.profile_name, "ok").file)
      [] last.op = "touch" ->
            load_store(touch_last_good(pre, last.provider, last.profile_id, "ok").file)

(* C16: when persisting fails, the operation returns a descriptive error    *)
(* and a load afterwards returns the complete document of before the        *)
(* operation or the complete new document.                                  *)
C16_FailedPersistLeavesWholeDocument ==
    PersistFailed =>
        /\ last.ret.err # ""
        /\ Store = PreStore \/ Store = IntendedStore

---------------------------------------------------------------------------
\* the process saved and returned success
SavedOk(proc) == proc.pc = "done" /\ proc.save_step > 0 /\ proc.ret.ok

\* b loaded before a saved, and a saved before b did
Overtaken(a, b) ==
    /\ SavedOk(a)
    /\ SavedOk(b)
    /\ b.load_step < a.save_step
    /\ a.save_step < b.save_step

\* the document the call of the process saves when it runs alone on file f
AloneOn(proc, f) ==
    CASE proc.op = "upsert" ->
            load_store(upsert_env_profile(f, proc.provider, proc.profile_name,
                                          proc.env_var, proc.kind, "ok").file)
      [] proc.op = "remove" ->
            load_store(remove_profile(f, proc.provider, proc.profile_name, "ok").file)
      [] proc.op = "touch" ->
            load_store(touch_last_good(f, proc.provider, proc.profile_id, "ok").file)

(* C15: when two processes both load before either saves and both report    *)
(* success, the final document is what the later writer's call makes of the *)
(* file it loaded: the whole document is the later writer's, and the        *)
(* earlier writer's change is in it only if the later writer made it too.   *)
C15_LastWriterWins ==
    \A a, b \in ProcIds :
        Overtaken(procs[a], procs[b])
        => /\ procs[a].ret.ok /\ procs[b].ret.ok
           /\ Store = AloneOn(procs[b], procs[b].seen)
           /\ procs[b].seen = procs[a].seen

\* both processes upsert, both get their profile id back, and the profile of
\* the earlier writer is not in the final document
C15_Witness ==
    \E a, b \in ProcIds :
        /\ Overtaken(procs[a], procs[b])
        /\ procs[a].op = "upsert"
        /\ procs[b].op = "upsert"
        /\ procs[b].ret.val \in DOMAIN Store.profiles
        /\ procs[a].ret.val \notin DOMAIN Store.profiles
        /\ procs[a].ret.val \in DOMAIN AloneOn(procs[b], DocFile(AloneOn(procs[a], procs[a].seen))).profiles

---------------------------------------------------------------------------
(* Vocabulary of the claims about the API gate *)

NonBlankStr(s) == \E i \in 1..Len(s) : CharAt(s, i) # " "

LoopbackAddresses == {"127.0.0.1", "::1"}

\* the paths that are public by name
PublicAllowlist ==
    {"/", "/api/health", "/api/health/detail", "/api/status", "/api/version",
     "/api/agents", "/api/profiles", "/api/config"}

\* the path is public by name, or lies under /api/uploads/
OnAllowlist(path) ==
    \/ path \in PublicAllowlist
    \/ /\ Len(path) >= Len("/api/uploads/")
       /\ SubSeq(path, 1, Len("/api/uploads/")) = "/api/uploads/"

\* an HTTP request was answered
HttpRequest == exchange # NoExchange /\ exchange.kind = "http"

\* an HTTP request on a path that is not public was answered
ProtectedRequest == HttpRequest /\ ~OnAllowlist(exchange.request.path)

Allowed == exchange.response.forwarded

\* the address the gate works with: 127.0.0.1 when the request has none
GateRemote ==
    IF exchange.request.remote = None THEN "127.0.0.1" ELSE exchange.request.remote[1]

FromLoopback == GateRemote \in LoopbackAddresses

\* the request names a remote address, and it is not a loopback address
FromElsewhere ==
    /\ exchange.request.remote # None
    /\ exchange.request.remote[1] \notin LoopbackAddresses

(* C17: the mode of AuthState is Token only with a non-blank token and      *)
(* Password only with a non-blank password; a configured Token or Password  *)
(* mode without its secret is LocalhostOnly, and then a request from a      *)
(* non-loopback address on a protected path is denied with 403; a           *)
(* configured TrustedProxy mode is TrustedProxy whatever the trusted list.  *)
C17_ModeIsEnforceable ==
    /\ auth_state.mode = "Token"
       => auth_state.token # None /\ NonBlankStr(auth_state.token[1])
    /\ auth_state.mode = "Password"
       => auth_state.password # None /\ NonBlankStr(auth_state.password[1])
    /\ (config.api_auth.mode = "Token" /\ auth_state.token = None)
       => auth_state.mode = "LocalhostOnly"
    /\ (config.api_auth.mode = "Password" /\ auth_state.password = None)
       => auth_state.mode = "LocalhostOnly"
    /\ (config.api_auth.mode \in {"Token", "Password"}
          /\ auth_state.mode = "LocalhostOnly" /\ ProtectedRequest /\ FromElsewhere)
       => ~Allowed /\ exchange.response.status = 403
    /\ config.api_auth.mode = "TrustedProxy" => auth_state.mode = "TrustedProxy"

\* Token is configured, the token variable is blank, and a remote request
\* that carries a bearer credential is denied with 403
C17_Witness ==
    /\ config.api_auth.mode = "Token"
    /\ config.api_auth.token_env = "T"
    /\ auth_state.mode = "LocalhostOnly"
    /\ ProtectedRequest
    /\ FromElsewhere
    /\ exchange.bearer = Some("ab")
    /\ exchange.response.status = 403

---------------------------------------------------------------------------
---------------------------------------------------------------------------
(* C19: in LocalhostOnly mode a request on a protected path is forwarded if *)
(* and only if the remote address the gate works with is a loopback         *)
(* address; any other is denied with 403 and the "no auth configured"       *)
(* error, whatever headers and query it carries.                            *)
C19_LocalhostOnlyAllowsLoopbackOnly ==
    (ProtectedRequest /\ auth_state.mode = "LocalhostOnly")
    => /\ Allowed <=> FromLoopback
       /\ ~Allowed => /\ exchange.response.status = 403
                      /\ exchange.response.error = NoAuthConfiguredError

\* a request from 10.0.0.1 that carries the configured api_key as bearer
\* credential and as token parameter is denied with 403
C19_Witness ==
    /\ ProtectedRequest
    /\ auth_state.mode = "LocalhostOnly"
    /\ auth_state.token = Some("ab")
    /\ FromElsewhere
    /\ exchange.bearer = Some("ab")
    /\ exchange.response.status = 403

---------------------------------------------------------------------------
\* the addresses of the configured trusted list
TrustedSet ==
    {ip \in IpLiterals :
        \E i \in 1..Len(config.api_auth.trusted_proxy.trusted_ips) :
            config.api_auth.trusted_proxy.trusted_ips[i] = ip}

\* the request has the configured identity header (x-openfang-user when none
\* is configured; header names are case-insensitive) with a non-blank value
HasIdentity ==
    \E h \in exchange.identity :
        /\ h[1] = (IF \A i \in 1..Len(config.api_auth.trusted_proxy.user_header) :
                         CharAt(config.api_auth.trusted_proxy.user_header, i) = " "
                   THEN "x-openfang-user"
                   ELSE LowerStr(config.api_auth.trusted_proxy.user_header))
        /\ NonBlankStr(h[2])

---------------------------------------------------------------------------
\* the request has a password in the x-openfang-password header or in the
\* password query parameter
PasswordSupplied == exchange.password_header # None \/ exchange.password_param # None

\* forwarded exactly on a password that is the configured one, byte for byte
PasswordDecisionIsExactMatch ==
    (ProtectedRequest /\ auth_state.mode = "Password")
    => (Allowed <=> \/ exchange.password_header = auth_state.password
                    \/ exchange.password_param = auth_state.password)

(* C21: in Password mode a request on a protected path is forwarded if and  *)
(* only if the x-openfang-password header value or the password query       *)
(* parameter value is the configured password, byte for byte; a denial is   *)
(* 401, with "Invalid API password" when the header or the parameter        *)
(* supplied a value and "Missing x-openfang-password header" when neither   *)
(* did.                                                                     *)
C21_PasswordModeAllowsExactPasswordOnly ==
    /\ PasswordDecisionIsExactMatch
    /\ (ProtectedRequest /\ auth_state.mode = "Password" /\ ~Allowed)
       => /\ exchange.response.status = 401
          /\ exchange.response.error =
                IF PasswordSupplied THEN "Invalid API password"
                ELSE "Missing x-openfang-password header"

---------------------------------------------------------------------------
\* the request has a bearer credential in Authorization or a token query
\* parameter
TokenSupplied == exchange.bearer # None \/ exchange.token_param # None

\* a denial has the status of its mode, and in Token mode the challenge header
DenialStatusIsFixedPerMode ==
    (ProtectedRequest /\ ~Allowed)
    => /\ exchange.response.status = (IF auth_state.mode = "LocalhostOnly" THEN 403 ELSE 401)
       /\ auth_state.mode = "Token"
          => \E i \in 1..Len(exchange.response.headers) :
                exchange.response.headers[i] = <<"www-authenticate", "Bearer">>

(* C22: every denial has the status of its mode: 403 in LocalhostOnly, 401  *)
(* in Token, Password and TrustedProxy, with www-authenticate: Bearer on a  *)
(* Token denial; a Token denial says "Invalid API token" exactly when the   *)
(* header or the query supplied a credential (which did not match) and the  *)
(* missing-header message exactly when neither did.                         *)
C22_DenialsAreStructuredPerMode ==
    /\ DenialStatusIsFixedPerMode
    /\ (ProtectedRequest /\ auth_state.mode = "Token" /\ ~Allowed)
       => exchange.response.error =
             IF TokenSupplied THEN "Invalid API token"
             ELSE "Missing Authorization: Bearer <token> header"

---------------------------------------------------------------------------
\* safe_equal_secret has returned
Compared == exchange.pc = "done"

(* C23: safe_equal_secret returns true if and only if the candidate and the *)
(* expected secret have the same length and the same bytes; inputs of       *)
(* different length are rejected by the length check alone, and ct_eq is    *)
(* not called for them.                                                     *)
C23_SecretCompareIsLengthThenBytes ==
    Compared
    => /\ exchange.result <=> /\ Len(exchange.input) = Len(exchange.expected)
                              /\ exchange.input = exchange.expected
       /\ Len(exchange.input) # Len(exchange.expected)
          => /\ ~exchange.result
             /\ exchange.steps = <<"len">>

\* a candidate that is a proper prefix of the expected secret is rejected
\* after the length check
C23_Witness ==
    /\ Compared
    /\ exchange.input = "a"
    /\ exchange.expected = "ab"
    /\ ~exchange.result
    /\ exchange.steps = <<"len">>

---------------------------------------------------------------------------
\* the allow rule of the mode of AuthState holds for the request
ModeAllowRule ==
    CASE auth_state.mode = "LocalhostOnly" -> FromLoopback
      [] auth_state.mode = "Token" ->
            \/ exchange.bearer = auth_state.token
            \/ exchange.token_param = auth_state.token
      [] auth_state.mode = "Password" ->
            \/ exchange.password_header = auth_state.password
            \/ exchange.password_param = auth_state.password
      [] auth_state.mode = "TrustedProxy" -> GateRemote \in TrustedSet /\ HasIdentity

(* C24: a request whose path is "/", /api/health, /api/health/detail,       *)
(* /api/status, /api/version, /api/agents, /api/profiles, /api/config or    *)
(* lies under /api/uploads/ is forwarded in every mode, whatever its remote *)
(* address and credentials; a request on any other path is forwarded only   *)
(* if the allow rule of the mode holds.                                     *)
C24_PublicPathsBypassTheGate ==
    HttpRequest
    => /\ OnAllowlist(exchange.request.path) => Allowed
       /\ (~OnAllowlist(exchange.request.path) /\ Allowed) => ModeAllowRule

\* Token mode: /api/config is forwarded to 10.0.0.1 with a wrong bearer
\* credential
C24_Witness ==
    /\ HttpRequest
    /\ auth_state.mode = "Token"
    /\ exchange.request.path = "/api/config"
    /\ FromElsewhere
    /\ exchange.bearer = Some("ac")
    /\ exchange.token_param = None
    /\ Allowed

---------------------------------------------------------------------------
\* credential values a request may carry in place of the one it has
CredentialValues == {"ab", "ac", "a", "", "é"}

\* the query parameters cannot hold an opaque byte
QueryCredentialValues == {"ab", "ac", "a", ""}

\* the answer to the request at hand with one thing replaced
AnswerWithHeaders(headers) == auth(auth_state, [exchange.request EXCEPT !.headers = headers])
AnswerWithQuery(query) == auth(auth_state, [exchange.request EXCEPT !.query = Some(query)])

\* the denied request at hand carries one credential, and with any of the
\* given values in its place it is forwarded or denied with the same response
SameDenialForValues(values) ==
    (ProtectedRequest /\ ~Allowed)
    => /\ \A c, d \in values :
            /\ exchange.request.headers = <<Bearer(c)>>
               => \/ AnswerWithHeaders(<<Bearer(d)>>).forwarded
                  \/ AnswerWithHeaders(<<Bearer(d)>>) = exchange.response
            /\ exchange.request.headers = <<PasswordHeader(c)>>
               => \/ AnswerWithHeaders(<<PasswordHeader(d)>>).forwarded
                  \/ AnswerWithHeaders(<<PasswordHeader(d)>>) = exchange.response
       /\ \A c, d \in values \cap QueryCredentialValues :
            /\ exchange.request.query = Some("token=" \o c)
               => \/ AnswerWithQuery("token=" \o d).forwarded
                  \/ AnswerWithQuery("token=" \o d) = exchange.response
            /\ exchange.request.query = Some("password=" \o c)
               => \/ AnswerWithQuery("password=" \o d).forwarded
                  \/ AnswerWithQuery("password=" \o d) = exchange.response

\* the same, for credentials without an opaque byte
SameDenialForReadableCredentials == SameDenialForValues(QueryCredentialValues)

\* the body of a denial is one of the fixed texts of its mode
DenialBodyIsFixedText ==
    (ProtectedRequest /\ ~Allowed)
    => exchange.response.error \in
          {NoAuthConfiguredError,
           "Invalid API token", "Missing Authorization: Bearer <token> header",
           "Invalid API password", "Missing x-openfang-password header",
           "Trusted proxy auth failed (expected header '"
              \o auth_state.trusted_proxy_user_header \o "')"}

(* C25: a denial does not echo the rejected credential: two requests denied *)
(* in the same mode that both supply a credential, in the header or in the  *)
(* query, and differ only in the value of that wrong credential, receive    *)
(* the same status, headers and body.                                       *)
C25_DenialDoesNotDependOnCredentialValue == SameDenialForValues(CredentialValues)

---------------------------------------------------------------------------
\* the value of a variable in the environment ApiAuthState was built in, if
\* the name is not blank and the value is set and not blank
StartSecret(name) ==
    IF NonBlankStr(name) /\ name \in DOMAIN start_env /\ NonBlankStr(start_env[name])
    THEN Some(start_env[name])
    ELSE None

(* C26: the token of AuthState is the configured api_key when that is not   *)
(* blank, otherwise the value the variable named by token_env had at        *)
(* construction when the name is not blank and the value is set and not     *)
(* blank, otherwise unset; the password is the value of the variable named  *)
(* by password_env under the same conditions and otherwise unset, whatever  *)
(* api_key is configured.                                                   *)
C26_SecretsAreResolvedAtConstruction ==
    /\ auth_state.token =
          (IF NonBlankStr(config.api_key) THEN Some(config.api_key)
           ELSE StartSecret(config.api_auth.token_env))
    /\ auth_state.password = StartSecret(config.api_auth.password_env)

\* Password is configured with an api_key and a password variable that was
\* blank at construction: the api_key is the token, there is no password, and
\* the variable has a value by now
C26_Witness ==
    /\ config.api_auth.mode = "Password"
    /\ config.api_key = "ab"
    /\ config.api_auth.password_env = "P"
    /\ start_env = ("T" :> "ab") @@ ("P" :> " ")
    /\ env = ("T" :> " ") @@ ("P" :> "ab")
    /\ auth_state.token = Some("ab")
    /\ auth_state.password = None
    /\ auth_state.mode = "LocalhostOnly"

---------------------------------------------------------------------------
\* ApiAuthState as from_kernel_config built it when the server started
BuiltState == from_kernel_config(config, start_env)

\* a request or an upgrade was answered
Answered == exchange # NoExchange /\ exchange.kind \in {"http", "ws"}

\* the answer the gate gives to the request at hand with the given state
AnswerOf(state) ==
    IF exchange.kind = "http" THEN auth(state, exchange.request)
    ELSE authorize_ws_upgrade(state, exchange.request.headers, exchange.request.query,
                              exchange.request.remote[1])

---------------------------------------------------------------------------
\* the step in which a caller's resolve runs
ResolveStep == last.op = "idle" /\ last'.op = "resolve"

(* C28: a resolve call, whether it returns a credential or nothing, leaves  *)
(* the store file and the environment variables as they were; in particular *)
(* last_good and usage_stats of the document are not updated.               *)
C28_ResolveOnlyReads ==
    [][ResolveStep
       => /\ file' = file
          /\ env' = env
          /\ load_store(file').last_good = load_store(file).last_good
          /\ load_store(file').usage_stats = load_store(file).usage_stats]_vars

\* a resolve returned a profile that is not the provider's last_good, and
\* the document has not been written
C28_Witness ==
    /\ ResolvedSome
    /\ CallProvider \in DOMAIN Store.last_good
    /\ Store.last_good[CallProvider] # ResolvedId
    /\ file = pre
    /\ ~last.wrote

---------------------------------------------------------------------------
\* at the resolve just made, a is the head of the provider's order list, b
\* is the provider's last_good, they differ and both are usable
OrderHeadAndLastGood(a, b) ==
    /\ Resolved
    /\ a \in Candidates(Store, CallProvider)
    /\ b \in Candidates(Store, CallProvider)
    /\ a # b
    /\ CallProvider \in DOMAIN Store.order
    /\ Len(Store.order[CallProvider]) > 0
    /\ Store.order[CallProvider][1] = a
    /\ IsLastGood(Store, CallProvider, b)
    /\ Usable(Store, a, last.now)
    /\ Usable(Store, b, last.now)

AllProfileIds == DOMAIN Store.profiles

(* C29: an explicit order list overrides last_good: when order[provider]   *)
(* has a usable profile A first and last_good[provider] names another       *)
(* usable profile B, resolve(provider) returns A.                           *)
C29_OrderOverridesLastGood ==
    \A a, b \in AllProfileIds :
        OrderHeadAndLastGood(a, b) => (ResolvedSome /\ ResolvedId = a)

(* C29, as the code has it: last_good overrides the order list; in the     *)
(* same situation resolve(provider) returns B, the last_good profile.       *)
C29_LastGoodOverridesOrder ==
    \A a, b \in AllProfileIds :
        OrderHeadAndLastGood(a, b) => (ResolvedSome /\ ResolvedId = b)

\* the head of the order list and the last_good profile are both usable and
\* differ, and resolve returned the last_good profile
C29_Witness ==
    \E a, b \in AllProfileIds :
        /\ OrderHeadAndLastGood(a, b)
        /\ ResolvedSome
        /\ ResolvedId = b
        /\ ResolvedId # Store.order[CallProvider][1]

---------------------------------------------------------------------------
\* the answer to the request at hand had it come from the given address
AnswerFrom(remote) == auth(auth_state, [exchange.request EXCEPT !.remote = remote])

\* a request on a protected path without connection metadata was answered
UnknownRemote == ProtectedRequest /\ exchange.request.remote = None

\* a request without connection metadata is answered as one from 127.0.0.1
UnknownRemoteIsLoopback ==
    UnknownRemote => exchange.response = AnswerFrom(Some("127.0.0.1"))

(* C30: a request without connection metadata is answered as a request     *)
(* from 127.0.0.1, and in LocalhostOnly mode that is the most restrictive   *)
(* choice: when such a request on a protected path is forwarded, the same   *)
(* request from any known remote address is forwarded too.                  *)
C30_UnknownRemoteIsMostRestrictive ==
    /\ UnknownRemoteIsLoopback
    /\ (UnknownRemote /\ auth_state.mode = "LocalhostOnly" /\ Allowed)
       => \A remote \in RemoteChoices \ {None} : AnswerFrom(remote).forwarded

---------------------------------------------------------------------------
(* C31: for a provider that has no profile in the store, an empty or        *)
(* whitespace-only provider name and any provider of a missing store file   *)
(* included, resolve returns nothing.                                       *)
C31_ResolveOfProviderWithoutProfiles ==
    (Resolved /\ Candidates(Store, CallProvider) = {}) => last.ret.val = None

\* the store has profiles and variables are set, the provider name is
\* blank, and resolve returned nothing
C31_Witness ==
    /\ Resolved
    /\ last.provider = <<" ">>
    /\ DOMAIN Store.profiles # {}
    /\ \E id \in DOMAIN Store.profiles : Usable(Store, id, last.now)
    /\ last.ret.val = None

\* a provider without profiles is resolved on a store that has usable
\* profiles of another provider
ResolvedOtherProviderOnly ==
    /\ Resolved
    /\ CallProvider # <<>>
    /\ Candidates(Store, CallProvider) = {}
    /\ \E id \in DOMAIN Store.profiles : Usable(Store, id, last.now)
    /\ last.ret.val = None

\* resolve on a missing store file
ResolvedOnMissingFile == Resolved /\ file = MissingFile /\ last.ret.val = None

---------------------------------------------------------------------------
\* a WebSocket upgrade was answered
WsUpgrade == exchange # NoExchange /\ exchange.kind = "ws"

(* C32: the WebSocket authorizer and the HTTP middleware decide alike: for  *)
(* the AuthState built by from_kernel_config and any headers, query and     *)
(* known remote address on a path that is not public, authorize_ws_upgrade  *)
(* returns true exactly when the middleware forwards the request.           *)
C32_WsUpgradeDecidesAsMiddleware ==
    /\ (ProtectedRequest /\ exchange.request.remote # None)
       => (Allowed <=> authorize_ws_upgrade(auth_state, exchange.request.headers,
                                            exchange.request.query,
                                            exchange.request.remote[1]))
    /\ WsUpgrade
       => (exchange.response <=> auth(auth_state, exchange.request).forwarded)

\* Token mode: an upgrade from 10.0.0.1 with the token in the query and no
\* Authorization header is accepted, and the middleware forwards it
C32_Witness ==
    /\ WsUpgrade
    /\ auth_state.mode = "Token"
    /\ exchange.request.remote = Some("10.0.0.1")
    /\ exchange.bearer = None
    /\ exchange.token_param = auth_state.token
    /\ exchange.response
    /\ auth(auth_state, exchange.request).forwarded

---------------------------------------------------------------------------
\* no credential but the empty string: each of the two sources is absent or
\* empty, and one of them is empty
OnlyEmptyCredential(header, param) ==
    /\ header \in {None, Some("")}
    /\ param \in {None, Some("")}
    /\ header = Some("") \/ param = Some("")

\* the request at hand carries only the empty string as credential of the mode
EmptyCredential ==
    \/ /\ auth_state.mode = "Token"
       /\ OnlyEmptyCredential(exchange.bearer, exchange.token_param)
    \/ /\ auth_state.mode = "Password"
       /\ OnlyEmptyCredential(exchange.password_header, exchange.password_param)

(* C33: an empty credential is never accepted: in Token or Password mode a  *)
(* request on a protected path, or a WebSocket upgrade, whose only supplied *)
(* credential is the empty string is not allowed.                           *)
C33_EmptyCredentialIsRejected ==
    /\ (ProtectedRequest /\ EmptyCredential) => ~Allowed
    /\ (WsUpgrade /\ EmptyCredential) => ~exchange.response

\* Token mode: "Authorization: Bearer " with nothing after it, from a
\* loopback address, is denied as an invalid token
C33_Witness ==
    /\ ProtectedRequest
    /\ auth_state.mode = "Token"
    /\ exchange.bearer = Some("")
    /\ exchange.token_param = None
    /\ FromLoopback
    /\ ~Allowed
    /\ exchange.response.error = "Invalid API token"

\* an upgrade with "?token=&password=" in Password mode is refused
EmptyPasswordUpgradeRefused ==
    /\ WsUpgrade
    /\ auth_state.mode = "Password"
    /\ exchange.password_param = Some("")
    /\ exchange.password_header = None
    /\ ~exchange.response

---------------------------------------------------------------------------
\* every profile of the document has the default priority
AllPrioritiesDefault(st) == \A id \in DOMAIN st.profiles : st.profiles[id].priority = 100

\* started on an empty store, every stored profile has priority 100
PrioritiesFromEmptyStore == AllPrioritiesDefault(Store)

(* C34: priorities do not diverge through the calls: a call made on a store *)
(* whose profiles all have priority 100 (the empty store among them) leaves *)
(* a store whose profiles all have priority 100; a successful upsert gives  *)
(* its profile a priority that is not above the minimum the provider had    *)
(* before (100 for a provider without profiles), and no upsert changes the  *)
(* priority of another profile.                                             *)
C34_PrioritiesDoNotDiverge ==
    /\ (last.op # "idle" /\ AllPrioritiesDefault(PreStore)) => AllPrioritiesDefault(Store)
    /\ Upserted
       => /\ \A c \in Candidates(PreStore, CallProvider) :
                Store.profiles[last.ret.val].priority <= PreStore.profiles[c].priority
          /\ Candidates(PreStore, CallProvider) = {}
             => Store.profiles[last.ret.val].priority = 100
    /\ UpsertCalled
       => \A id \in (DOMAIN Store.profiles \cap DOMAIN PreStore.profiles) \ {CallProfileId} :
             Store.profiles[id].priority = PreStore.profiles[id].priority

\* a new profile is upserted for a provider whose profiles have priorities
\* 100 and 50: it gets 50, and the two keep theirs
C34_Witness ==
    /\ Upserted
    /\ last.ret.val \notin DOMAIN PreStore.profiles
    /\ \E a, b \in Candidates(PreStore, CallProvider) :
          /\ PreStore.profiles[a].priority = 100
          /\ PreStore.profiles[b].priority = 50
          /\ Store.profiles[a].priority = 100
          /\ Store.profiles[b].priority = 50
    /\ Store.profiles[last.ret.val].priority = 50

\* started on an empty store, a second profile of a provider was upserted
SecondProfileFromEmptyStore ==
    /\ Upserted
    /\ Candidates(PreStore, CallProvider) # {}
    /\ last.ret.val \notin DOMAIN PreStore.profiles
    /\ Store.profiles[last.ret.val].priority = 100

---------------------------------------------------------------------------
(* The setup wizard: step protocol and the auth mode it writes             *)

KeyHandled == event.kind = "key"

\* the key event was Enter in the gateway-auth phase of the ApiKey step
GatewayAuthEnterKey ==
    /\ KeyHandled
    /\ event.enter
    /\ event.before.step = "ApiKey"
    /\ event.before.phase = "GatewayAuth"

\* the Model step was entered by the key event
ModelEntered ==
    KeyHandled /\ wizard.step = "Model" /\ event.before.step # "Model"

PersistSucceeded == event.persist # None /\ event.persist[1].ok

\* Enter met a selected Token or Password mode with a blank secret
BlankSecretEntered ==
    GatewayAuthEnterKey /\ event.before.needs_secret /\ event.before.blank_secret

(* C35: the wizard follows Provider -> ApiKey -> Model -> Saving -> Done: the
   Model step is entered only by Enter in the gateway-auth phase after
   persist_gateway_auth_secret returned Ok; Enter with a blank token or
   password leaves the wizard in the gateway-auth phase with an error; the
   config file is written only by Enter in the Model step with a provider
   selected; and no key event changes anything once the step is Saving or
   Done. *)
C35_WizardFollowsStepProtocol ==
    KeyHandled =>
        /\ ModelEntered => (GatewayAuthEnterKey /\ PersistSucceeded)
        /\ BlankSecretEntered =>
               /\ wizard.step = "ApiKey"
               /\ wizard.api_setup_phase = "GatewayAuth"
               /\ wizard.gateway_auth_error # ""
               /\ ~PersistSucceeded
        /\ event.config_written =>
               /\ event.enter
               /\ event.before.step = "Model"
               /\ event.before.provider_selected
        /\ event.before.step \in {"Saving", "Done"} => event.unchanged

\* the Model step entered after a typed gateway secret was persisted
C35_Witness ==
    /\ ModelEntered
    /\ PersistSucceeded
    /\ event.before.needs_secret
    /\ event.persisted[1].secret = "a"

\* Enter on a secret of blanks was refused
BlankSecretRefused ==
    /\ BlankSecretEntered
    /\ event.persisted # None
    /\ wizard.gateway_auth_secret_input = " "
    /\ wizard.gateway_auth_error = "Enter a gateway password"

\* a key pressed on the Done screen after the config was written
KeyAtDoneIgnored ==
    /\ KeyHandled
    /\ event.before.step = "Done"
    /\ config.kind = "toml"
    /\ event.unchanged

\* the config was written by Enter in the Model step
ConfigWrittenFromModel ==
    KeyHandled /\ event.config_written /\ config.kind = "toml"

\* the ApiAuthMode a mode string of config.toml stands for (the enum is
\* written in snake_case)
ApiAuthModeOf(mode_string) ==
    CASE mode_string = "token" -> "Token"
      [] mode_string = "password" -> "Password"
      [] mode_string = "trusted_proxy" -> "TrustedProxy"
      [] OTHER -> "None"

\* the KernelConfig read back from the config.toml the wizard wrote: it has
\* no api_key, and a trusted_proxy section only in trusted_proxy mode
WrittenKernelConfig ==
    Config(ApiAuthModeOf(config.api_auth.mode), "",
           config.api_auth.token_env, config.api_auth.password_env,
           IF config.api_auth.trusted_proxy = None THEN ""
           ELSE config.api_auth.trusted_proxy[1].user_header,
           IF config.api_auth.trusted_proxy = None THEN <<>>
           ELSE config.api_auth.trusted_proxy[1].trusted_ips)

\* config.toml was written with a mode that needs a secret
SecretModeWritten ==
    config.kind = "toml" /\ config.api_auth.mode \in {"token", "password"}

\* the environment variable of a mode that needs a secret, and the other one
OwnEnv(mode) == IF mode = "Token" THEN TokenEnv ELSE PasswordEnv
OtherEnv(mode) == IF mode = "Token" THEN PasswordEnv ELSE TokenEnv

(* C36: whenever config.toml is written with api_auth mode "token" (resp.
   "password"), the last successful persist_gateway_auth_secret was for that
   mode, the environment holds its non-blank trimmed secret in
   OPENFANG_API_TOKEN (resp. OPENFANG_API_PASSWORD) and does not hold the
   other variable, and the AuthState built from the written config and that
   environment has mode Token (resp. Password), not LocalhostOnly. *)
C36_WrittenAuthModeIsEnforceable ==
    SecretModeWritten =>
        LET mode == ApiAuthModeOf(config.api_auth.mode)
        IN /\ event.persisted # None
           /\ event.persisted[1].mode = mode
           /\ TrimStr(event.persisted[1].secret) # ""
           /\ OwnEnv(mode) \in DOMAIN env
           /\ env[OwnEnv(mode)] = event.persisted[1].secret
           /\ OtherEnv(mode) \notin DOMAIN env
           /\ from_kernel_config(WrittenKernelConfig, env).mode = mode

\* password mode written after an earlier persist for another mode, in an
\* environment that started with both variables set
C36_Witness ==
    /\ SecretModeWritten
    /\ config.api_auth.mode = "password"
    /\ event.persisted # None
    /\ event.persisted[1].mode_changed
    /\ "OLLAMA_API_KEY" \in DOMAIN env
    /\ env[PasswordEnv] = "a"

\* token mode written
TokenModeWritten ==
    /\ SecretModeWritten
    /\ config.api_auth.mode = "token"
    /\ from_kernel_config(WrittenKernelConfig, env).mode = "Token"

====
